---- MODULE Spec2Model ----
(***************************************************************************)
(* A model of the cathode-nes emulator core: the MOS 6502 interpreter      *)
(* (mos_6502/src/cpu.rs), its flat 64 KiB test bus (mos_6502/src/memory.rs)*)
(* and the NES orchestrator with its CPU bus and PPU dot engine            *)
(* (nes/src/nes.rs, nes/src/ppu/mod.rs, nes/src/cartridge.rs).             *)
(*                                                                         *)
(* Machine values are records.  A CPU record carries the fields of         *)
(* `struct CPU` plus the bus it executes against (field `bus`), so an      *)
(* operation of the source that takes `&mut self` and `bus` is an operator *)
(* from a CPU record to a CPU record.  Bytes are 0..255, words 0..65535.   *)
(***************************************************************************)
EXTENDS Integers, Sequences, FiniteSets, TLC

\* With(value, Body): Body applied to value; binds the result of a step to
\* a name for the steps after it.
With(value, Body(_)) == Body(value)

Byte == 0..255
None == -1

(***************************************************************************)
(* Fixed-width helpers: Rust's u8/u16 operators on naturals.               *)
(***************************************************************************)
RECURSIVE BitOp(_, _, _, _)
BitOp(f, a, b, n) ==
  IF n = 0 THEN 0
  ELSE f[a % 2][b % 2] + 2 * BitOp(f, a \div 2, b \div 2, n - 1)

BitAnd(a, b) ==
  BitOp([i \in 0..1 |-> [j \in 0..1 |-> IF i = 1 /\ j = 1 THEN 1 ELSE 0]], a, b, 16)
BitOr(a, b) ==
  BitOp([i \in 0..1 |-> [j \in 0..1 |-> IF i = 1 \/ j = 1 THEN 1 ELSE 0]], a, b, 16)
BitXor(a, b) ==
  BitOp([i \in 0..1 |-> [j \in 0..1 |-> IF i # j THEN 1 ELSE 0]], a, b, 16)
BitNot8(a) == 255 - a
TestBit(v, i) == (v \div (2 ^ i)) % 2 = 1
B2N(b) == IF b THEN 1 ELSE 0
Wrap8(v) == v % 256
Wrap16(v) == v % 65536

(***************************************************************************)
(* FlatMemory: 64 KiB of bytes, all zero after new().  The array is kept   *)
(* sparsely: an address outside the domain of `bytes` holds 0, and a       *)
(* stored 0 is dropped from the domain so that equal memories are equal    *)
(* values.                                                                 *)
(***************************************************************************)
FlatMemoryNew == [kind |-> "flat", bytes |-> [k \in {} |-> 0]]

SparseGet(bytes, address) ==
  IF address \in DOMAIN bytes THEN bytes[address] ELSE 0

SparseSet(bytes, address, value) ==
  IF value = 0
  THEN [k \in DOMAIN bytes \ {address} |-> bytes[k]]
  ELSE [k \in DOMAIN bytes \cup {address} |-> IF k = address THEN value ELSE bytes[k]]

FlatReadByte(bus, address) == SparseGet(bus.bytes, address)
FlatWriteByte(bus, address, value) ==
  [bus EXCEPT !.bytes = SparseSet(@, address, value)]

(***************************************************************************)
(* Ram<SIZE> and Rom<SIZE>: indexable byte arrays, index taken modulo SIZE.*)
(***************************************************************************)
RamIndex(bytes, index, size) == SparseGet(bytes, index % size)
RamIndexMut(bytes, index, size, value) == SparseSet(bytes, index % size, value)

(***************************************************************************)
(* Cartridges.  EmptyCartridgeSlot answers 0 and ignores writes; NROM maps *)
(* PRG-RAM at $6000-$7FFF and PRG-ROM from $8000 and panics below $6000.   *)
(* A cartridge operation yields the cartridge after it; `panic` records    *)
(* that the operation hit a panic!() arm.                                   *)
(***************************************************************************)
EmptyCartridgeSlot == [kind |-> "empty", panic |-> FALSE]

NROMNew(prg_rom, prg_rom_size, has_prg_ram, mirroring) ==
  [kind |-> "nrom", vram |-> <<>>, prg_rom |-> prg_rom, prg_rom_size |-> prg_rom_size,
   chr_rom |-> <<>>, has_prg_ram |-> has_prg_ram, prg_ram |-> <<>>,
   mirroring |-> mirroring, panic |-> FALSE]

mirror_vram_address_swapped(address, mirroring) ==
  IF mirroring = "Horizontal"
  THEN address % 2048
  ELSE (address % 1024) + 1024 * (address \div 2048)

mirror_vram_address(address, mirroring) ==
  IF mirroring = "Horizontal"
  THEN (address % 1024) + 1024 * (address \div 2048)
  ELSE address % 2048

CartCpuReadValue(cart, address) ==
  IF cart.kind = "empty" THEN 0
  ELSE IF address >= 24576 /\ address <= 32767
       THEN (IF cart.has_prg_ram THEN RamIndex(cart.prg_ram, address - 24576, 2048) ELSE 0)
  ELSE IF address >= 32768
       THEN RamIndex(cart.prg_rom, address - 32768, cart.prg_rom_size)
  ELSE 0

CartCpuAfterRead(cart, address) ==
  IF cart.kind = "nrom" /\ address < 24576 THEN [cart EXCEPT !.panic = TRUE] ELSE cart

CartCpuWriteThrough(cart, address, value) ==
  IF cart.kind = "empty" THEN cart
  ELSE IF address >= 24576 /\ address <= 32767
       THEN (IF cart.has_prg_ram
             THEN [cart EXCEPT !.prg_ram = RamIndexMut(@, address - 24576, 2048, value)]
             ELSE cart)
  ELSE IF address >= 32768
       THEN [cart EXCEPT !.prg_rom = RamIndexMut(@, address - 32768, cart.prg_rom_size, value)]
  ELSE [cart EXCEPT !.panic = TRUE]

CartCpuWrite(cart, address, value) ==
  IF cart.kind = "empty" THEN cart
  ELSE IF address >= 24576 /\ address <= 32767
       THEN (IF cart.has_prg_ram
             THEN [cart EXCEPT !.prg_ram = RamIndexMut(@, address - 24576, 2048, value)]
             ELSE cart)
  ELSE IF address >= 32768 THEN cart
  ELSE [cart EXCEPT !.panic = TRUE]

CartPpuReadValue(cart, address) ==
  IF cart.kind = "empty" THEN 0
  ELSE IF address <= 8191 THEN RamIndex(cart.chr_rom, address, 8192)
  ELSE IF address <= 12287
       THEN RamIndex(cart.vram, mirror_vram_address(address - 8192, cart.mirroring), 2048)
  ELSE 0

CartPpuAfterRead(cart, address) ==
  IF cart.kind = "nrom" /\ address > 12287 THEN [cart EXCEPT !.panic = TRUE] ELSE cart

CartPpuWrite(cart, address, value) ==
  IF cart.kind = "empty" THEN cart
  ELSE IF address <= 8191 THEN cart
  ELSE IF address <= 12287
       THEN [cart EXCEPT !.vram =
               RamIndexMut(@, mirror_vram_address(address - 8192, cart.mirroring), 2048, value)]
  ELSE [cart EXCEPT !.panic = TRUE]

(***************************************************************************)
(* PPU.  The record holds the fields of `struct PPU`; the registers are    *)
(* kept as their byte/word values.  The frame buffer and                   *)
(* current_background_slice are outputs of the dot engine that no other    *)
(* state reads back; they are not part of the record.                      *)
(***************************************************************************)
SCANLINE_LENGTH == 341
TOTAL_SCANLINES == 262
VBLANK_START_SCANLINE == 240
NMI_SCANLINE == 241

PPUNew ==
  [ppu_ctrl |-> 0, ppu_mask |-> 0, ppu_status |-> 0, oam_addr |-> 0,
   ppu_scroll |-> [offset_x |-> 0, offset_y |-> 0, first_write |-> TRUE],
   ppu_addr |-> 0, oam |-> <<>>, palette_ram |-> <<>>,
   ppu_data_read_buffer |-> 0, x |-> 0, y |-> 0, nmi_interrupt |-> FALSE]

\* Variant of PpuCtrl::nmi_enabled that reports the bit as always set.
nmi_enabled_always(ppu) == TRUE
nmi_enabled(ppu) == TestBit(ppu.ppu_ctrl, 7)
vram_address_increment(ppu) == IF TestBit(ppu.ppu_ctrl, 2) THEN 32 ELSE 1

\* PpuStatus::set_vblank_started / set_sprite_zero_hit: clear the bit, then or it in.
set_vblank_started(status, on) == BitAnd(status, 127) + 128 * B2N(on)
set_sprite_zero_hit(status, on) == BitAnd(status, 191) + 64 * B2N(on)

in_vblank(ppu) == ppu.y >= VBLANK_START_SCANLINE

\* Variant of PaletteRam::mirror that mirrors nothing.
PaletteMirrorIdentity(address) == address
\* PaletteRam::mirror and its Index implementation.
PaletteMirror(address) ==
  IF address >= 16 /\ address % 4 = 0 THEN address - 16 ELSE address
PaletteGet(palette, index) == SparseGet(palette, PaletteMirror(index) % 32)
PaletteSet(palette, index, value) == SparseSet(palette, PaletteMirror(index) % 32, value)

cycle_vblank_at_240(ppu) ==
  With(IF ppu.x >= 257 /\ ppu.x <= 320 THEN [ppu EXCEPT !.oam_addr = 0] ELSE ppu, LAMBDA p0 :
  With([p0 EXCEPT !.x = @ + 1], LAMBDA p1 :
    IF p1.x >= SCANLINE_LENGTH
     THEN With([p1 EXCEPT !.x = 0, !.y = @ + 1], LAMBDA p2 :
          With(IF p2.y = VBLANK_START_SCANLINE
                    THEN [p2 EXCEPT
                            !.nmi_interrupt = IF nmi_enabled(p2) THEN TRUE ELSE @,
                            !.ppu_status = set_sprite_zero_hit(set_vblank_started(@, TRUE), FALSE)]
                    ELSE p2, LAMBDA p3 :
            IF p3.y >= TOTAL_SCANLINES
             THEN [p3 EXCEPT !.y = 0, !.nmi_interrupt = FALSE,
                             !.ppu_status = set_sprite_zero_hit(set_vblank_started(@, FALSE), FALSE)]
             ELSE p3))
     ELSE p1))

\* One dot.  Position and flag bookkeeping of PPU::cycle.
cycle(ppu) ==
  With(IF ppu.x >= 257 /\ ppu.x <= 320 THEN [ppu EXCEPT !.oam_addr = 0] ELSE ppu, LAMBDA p0 :
  With([p0 EXCEPT !.x = @ + 1], LAMBDA p1 :
    IF p1.x >= SCANLINE_LENGTH
     THEN With([p1 EXCEPT !.x = 0, !.y = @ + 1], LAMBDA p2 :
          With(IF p2.y = NMI_SCANLINE
                    THEN [p2 EXCEPT
                            !.nmi_interrupt = IF nmi_enabled(p2) THEN TRUE ELSE @,
                            !.ppu_status = set_sprite_zero_hit(set_vblank_started(@, TRUE), FALSE)]
                    ELSE p2, LAMBDA p3 :
            IF p3.y >= TOTAL_SCANLINES
             THEN [p3 EXCEPT !.y = 0, !.nmi_interrupt = FALSE,
                             !.ppu_status = set_sprite_zero_hit(set_vblank_started(@, FALSE), FALSE)]
             ELSE p3))
     ELSE p1))

\* PPU::tick: `cycles` dots in a row.  The loop is split in halves, and the
\* position test (true of every PPU) makes the first half a value before the
\* second half starts, which keeps the evaluation shallow.
RECURSIVE PpuTick(_, _)
PpuTick(ppu, cycles) ==
  IF cycles = 0 THEN ppu
  ELSE IF cycles = 1 THEN cycle(ppu)
  ELSE With(PpuTick(ppu, cycles \div 2), LAMBDA half :
         IF half.x < SCANLINE_LENGTH
          THEN PpuTick(half, cycles - cycles \div 2)
          ELSE half)

\* PPU::take_interrupt is mem::take: the value returned and the PPU afterwards.
take_interrupt_value(ppu) == ppu.nmi_interrupt
\* Variant of take_interrupt that reads the latch without clearing it.
take_interrupt_keeps_latch(ppu) == ppu
take_interrupt(ppu) == [ppu EXCEPT !.nmi_interrupt = FALSE]

write_ppu_ctrl(ppu, value) == [ppu EXCEPT !.ppu_ctrl = value]
write_ppu_mask(ppu, value) == [ppu EXCEPT !.ppu_mask = value]

peek_ppu_status(ppu) == ppu.ppu_status
\* Variant of read_ppu_status that leaves the PPUADDR and PPUSCROLL latches alone.
read_ppu_status_keeps_latches(ppu) ==
  [ppu EXCEPT !.ppu_status = set_vblank_started(@, FALSE)]
read_ppu_status(ppu) ==
  [ppu EXCEPT !.ppu_status = set_vblank_started(@, FALSE),
              !.ppu_addr = 0,
              !.ppu_scroll = [offset_x |-> 0, offset_y |-> 0, first_write |-> TRUE]]

write_oam_addr(ppu, value) == [ppu EXCEPT !.oam_addr = value]
peek_oam_data(ppu) == RamIndex(ppu.oam, ppu.oam_addr, 256)
read_oam_data(ppu) ==
  IF ~in_vblank(ppu) THEN [ppu EXCEPT !.oam_addr = Wrap8(@ + 1)] ELSE ppu
write_oam_data(ppu, value) ==
  [ppu EXCEPT !.oam = RamIndexMut(@, ppu.oam_addr, 256, value),
              !.oam_addr = Wrap8(@ + 1)]

write_ppu_scroll(ppu, value) ==
  [ppu EXCEPT !.ppu_scroll =
     IF @.first_write
     THEN [@ EXCEPT !.offset_x = value, !.first_write = FALSE]
     ELSE [@ EXCEPT !.offset_y = value, !.first_write = TRUE]]

\* PpuAddr::write: shift the 16-bit latch left by eight, or in the byte, keep 14 bits.
write_ppu_addr(ppu, value) ==
  [ppu EXCEPT !.ppu_addr = BitAnd(BitOr(Wrap16(@ * 256), value), 16383)]
PpuAddrIncrement(address, increment) == BitAnd(Wrap16(address + increment), 16383)

\* read_ppu_data returns a byte and changes both the PPU and the cartridge.
read_ppu_data_value(ppu, cart) ==
  IF ppu.ppu_addr <= 16127 THEN ppu.ppu_data_read_buffer
  ELSE PaletteGet(ppu.palette_ram, ppu.ppu_addr - 16128)
read_ppu_data_ppu(ppu, cart) ==
  [ppu EXCEPT !.ppu_addr = PpuAddrIncrement(@, vram_address_increment(ppu)),
              !.ppu_data_read_buffer =
                 IF ppu.ppu_addr <= 16127 THEN CartPpuReadValue(cart, ppu.ppu_addr) ELSE @]
read_ppu_data_cart(ppu, cart) ==
  IF ppu.ppu_addr <= 16127 THEN CartPpuAfterRead(cart, ppu.ppu_addr) ELSE cart

write_ppu_data_ppu(ppu, value) ==
  [ppu EXCEPT !.ppu_addr = PpuAddrIncrement(@, vram_address_increment(ppu)),
              !.palette_ram =
                 IF ppu.ppu_addr <= 16127 THEN @
                 ELSE PaletteSet(@, ppu.ppu_addr - 16128, value)]
write_ppu_data_cart(ppu, cart, value) ==
  IF ppu.ppu_addr <= 16127 THEN CartPpuWrite(cart, ppu.ppu_addr, value) ELSE cart

\* PPU::oam_dma: copy_from_slice of a whole page over OAM.
oam_dma(ppu, page_data) ==
  [ppu EXCEPT !.oam = [k \in {i \in 0..255 : page_data[i] # 0} |-> page_data[k]]]

(***************************************************************************)
(* CpuBus of nes.rs: the CPU's view of RAM, the PPU registers, the OAM-DMA *)
(* port and the cartridge.  A read returns a byte (NesReadValue) and may   *)
(* change the bus (NesAfterRead).                                          *)
(***************************************************************************)
NesBusNew(cartridge) ==
  [kind |-> "nes", ram |-> <<>>, ppu |-> PPUNew, cartridge |-> cartridge]

NesReadValue(bus, address) ==
  IF address <= 8191 THEN RamIndex(bus.ram, address, 2048)
  ELSE IF address <= 16383
       THEN CASE address % 8 = 2 -> peek_ppu_status(bus.ppu)
              [] address % 8 = 4 -> peek_oam_data(bus.ppu)
              [] address % 8 = 7 -> read_ppu_data_value(bus.ppu, bus.cartridge)
              [] OTHER -> 0
  ELSE IF address >= 16416 THEN CartCpuReadValue(bus.cartridge, address)
  ELSE 0

NesAfterRead(bus, address) ==
  IF address <= 8191 THEN bus
  ELSE IF address <= 16383
       THEN CASE address % 8 = 2 -> [bus EXCEPT !.ppu = read_ppu_status(@)]
              [] address % 8 = 4 -> [bus EXCEPT !.ppu = read_oam_data(@)]
              [] address % 8 = 7 ->
                   [bus EXCEPT !.ppu = read_ppu_data_ppu(bus.ppu, bus.cartridge),
                               !.cartridge = read_ppu_data_cart(bus.ppu, bus.cartridge)]
              [] OTHER -> bus
  ELSE IF address >= 16416
       THEN [bus EXCEPT !.cartridge = CartCpuAfterRead(@, address)]
  ELSE bus

\* CpuBus::read_page: 256 bus reads, in ascending order, each with its side effect.
RECURSIVE NesReadPage(_, _, _, _)
NesReadPage(bus, base_address, i, page_data) ==
  IF i = 256 THEN [data |-> page_data, bus |-> bus]
  ELSE NesReadPage(NesAfterRead(bus, base_address + i), base_address, i + 1,
                   [page_data EXCEPT ![i] = NesReadValue(bus, base_address + i)])

NesWrite(bus, address, value) ==
  IF address <= 8191 THEN [bus EXCEPT !.ram = RamIndexMut(@, address, 2048, value)]
  ELSE IF address <= 16383
       THEN CASE address % 8 = 0 -> [bus EXCEPT !.ppu = write_ppu_ctrl(@, value)]
              [] address % 8 = 1 -> [bus EXCEPT !.ppu = write_ppu_mask(@, value)]
              [] address % 8 = 2 -> bus
              [] address % 8 = 3 -> [bus EXCEPT !.ppu = write_oam_addr(@, value)]
              [] address % 8 = 4 -> [bus EXCEPT !.ppu = write_oam_data(@, value)]
              [] address % 8 = 5 -> [bus EXCEPT !.ppu = write_ppu_scroll(@, value)]
              [] address % 8 = 6 -> [bus EXCEPT !.ppu = write_ppu_addr(@, value)]
              [] address % 8 = 7 ->
                   [bus EXCEPT !.ppu = write_ppu_data_ppu(bus.ppu, value),
                               !.cartridge = write_ppu_data_cart(bus.ppu, bus.cartridge, value)]
  ELSE IF address = 16404
       THEN With(NesReadPage(bus, value * 256, 0, [i \in 0..255 |-> 0]), LAMBDA page :
              [page.bus EXCEPT !.ppu = oam_dma(@, page.data)])
  ELSE IF address >= 16416
       THEN [bus EXCEPT !.cartridge = CartCpuWrite(@, address, value)]
  ELSE bus

(***************************************************************************)
(* Controller ports (input/mod.rs).  A port holds the bytes of the last    *)
(* polled controller state, a read cursor, and the state supplied by the   *)
(* host since the last poll (an Option: the empty sequence is None and a    *)
(* one-element sequence is Some).  `index` is a u8: `ovf` records that  *)
(* `self.index += 1` overflowed (a panic with overflow checks, a wrap to 0 *)
(* without them, which is the value the model continues with).             *)
(***************************************************************************)
ControllerPortDefault ==
  [read_buffer |-> <<0, 0, 0, 0, 0, 0, 0, 0>>, index |-> 0, overrun_default |-> 1,
   incoming_state |-> <<>>, ovf |-> FALSE]

\* StandardController::read_buffer: one byte per button, in this order.
read_buffer(state) ==
  <<B2N(state.a), B2N(state.b), B2N(state.select), B2N(state.start),
    B2N(state.up), B2N(state.down), B2N(state.left), B2N(state.right)>>

\* ControllerPort::update with a StandardController (overrun_default is 1).
update(port, state) ==
  [port EXCEPT !.incoming_state =
     <<[read_buffer |-> read_buffer(state), overrun_default |-> 1]>>]

poll(port) ==
  [(IF port.incoming_state # <<>>
    THEN [port EXCEPT !.read_buffer = port.incoming_state[1].read_buffer,
                      !.overrun_default = port.incoming_state[1].overrun_default,
                      !.incoming_state = <<>>]
    ELSE port) EXCEPT !.index = 0]

current_byte(port) ==
  IF port.index < Len(port.read_buffer)
  THEN port.read_buffer[port.index + 1]
  ELSE port.overrun_default

\* ControllerPort::peek, and ControllerPort::read: the byte returned is
\* current_byte of the port before the call; this is the port after it.
peek(port) == current_byte(port)
read(port) == [port EXCEPT !.index = Wrap8(@ + 1), !.ovf = @ \/ (port.index = 255)]

(***************************************************************************)
(* CpuBus of cpu_bus.rs: RAM, the PPU registers, the OAM-DMA port, the two *)
(* controller ports and the cartridge, decoded by map_address.  A read     *)
(* returns a byte (CpuBusReadValue) and may change the bus                 *)
(* (CpuBusAfterRead); a peek returns a byte and changes nothing.           *)
(***************************************************************************)
CpuBusNew(cartridge) ==
  [kind |-> "cpu_bus", ram |-> <<>>, ppu |-> PPUNew,
   port_a |-> ControllerPortDefault, port_b |-> ControllerPortDefault,
   cartridge |-> cartridge]

\* PPU::peek_ppu_data.
peek_ppu_data(ppu) ==
  IF ppu.ppu_addr <= 16127 THEN ppu.ppu_data_read_buffer
  ELSE PaletteGet(ppu.palette_ram, ppu.ppu_addr - 16128)

\* CpuBus::peek_byte, with PPU::peek_register.  The cartridge's cpu_peek is
\* taken to return what cpu_read returns.
CpuBusPeek(bus, address) ==
  IF address <= 8191 THEN RamIndex(bus.ram, address, 2048)
  ELSE IF address <= 16383
       THEN CASE address % 8 = 2 -> peek_ppu_status(bus.ppu)
              [] address % 8 = 4 -> peek_oam_data(bus.ppu)
              [] address % 8 = 7 -> peek_ppu_data(bus.ppu)
              [] OTHER -> 0
  ELSE IF address = 16404 THEN 0
  ELSE IF address = 16406 THEN peek(bus.port_a)
  ELSE IF address = 16407 THEN peek(bus.port_b)
  ELSE IF address >= 16416 THEN CartCpuReadValue(bus.cartridge, address)
  ELSE 0

\* CpuBus::read_byte, with PPU::read_register: the byte returned.
CpuBusReadValue(bus, address) ==
  IF address <= 8191 THEN RamIndex(bus.ram, address, 2048)
  ELSE IF address <= 16383
       THEN CASE address % 8 = 2 -> peek_ppu_status(bus.ppu)
              [] address % 8 = 4 -> peek_oam_data(bus.ppu)
              [] address % 8 = 7 -> read_ppu_data_value(bus.ppu, bus.cartridge)
              [] OTHER -> 0
  ELSE IF address = 16404 THEN 0
  ELSE IF address = 16406 THEN current_byte(bus.port_a)
  ELSE IF address = 16407 THEN current_byte(bus.port_b)
  ELSE IF address >= 16416 THEN CartCpuReadValue(bus.cartridge, address)
  ELSE 0

\* CpuBus::read_byte, with PPU::read_register: the bus after the read.
CpuBusAfterRead(bus, address) ==
  IF address <= 8191 THEN bus
  ELSE IF address <= 16383
       THEN CASE address % 8 = 2 -> [bus EXCEPT !.ppu = read_ppu_status(@)]
              [] address % 8 = 4 -> [bus EXCEPT !.ppu = read_oam_data(@)]
              [] address % 8 = 7 ->
                   [bus EXCEPT !.ppu = read_ppu_data_ppu(bus.ppu, bus.cartridge),
                               !.cartridge = read_ppu_data_cart(bus.ppu, bus.cartridge)]
              [] OTHER -> bus
  ELSE IF address = 16404 THEN bus
  ELSE IF address = 16406 THEN [bus EXCEPT !.port_a = read(@)]
  ELSE IF address = 16407 THEN [bus EXCEPT !.port_b = read(@)]
  ELSE IF address >= 16416
       THEN [bus EXCEPT !.cartridge = CartCpuAfterRead(@, address)]
  ELSE bus

\* read_page: bus reads of base_address + i for i in first..(first + count - 1),
\* in ascending order, each with its side effect; read_page(bus, base, 0, 256,
\* zeros) is the whole loop.  The loop is split in halves, and the test on the
\* bus (true of every CpuBus) makes the first half a value before the second
\* half starts, which keeps the evaluation shallow.
RECURSIVE read_page(_, _, _, _, _)
read_page(bus, base_address, first, count, page_data) ==
  IF count = 0 THEN [data |-> page_data, bus |-> bus]
  ELSE IF count = 1
       THEN [data |-> [page_data EXCEPT ![first] = CpuBusReadValue(bus, base_address + first)],
             bus |-> CpuBusAfterRead(bus, base_address + first)]
  ELSE With(read_page(bus, base_address, first, count \div 2, page_data), LAMBDA half :
         IF half.bus.kind = "cpu_bus"
          THEN read_page(half.bus, base_address, first + count \div 2,
                         count - count \div 2, half.data)
          ELSE half)

\* CpuBus::write_byte, with PPU::write_register.
CpuBusWrite(bus, address, value) ==
  IF address <= 8191 THEN [bus EXCEPT !.ram = RamIndexMut(@, address, 2048, value)]
  ELSE IF address <= 16383
       THEN CASE address % 8 = 0 -> [bus EXCEPT !.ppu = write_ppu_ctrl(@, value)]
              [] address % 8 = 1 -> [bus EXCEPT !.ppu = write_ppu_mask(@, value)]
              [] address % 8 = 2 -> bus
              [] address % 8 = 3 -> [bus EXCEPT !.ppu = write_oam_addr(@, value)]
              [] address % 8 = 4 -> [bus EXCEPT !.ppu = write_oam_data(@, value)]
              [] address % 8 = 5 -> [bus EXCEPT !.ppu = write_ppu_scroll(@, value)]
              [] address % 8 = 6 -> [bus EXCEPT !.ppu = write_ppu_addr(@, value)]
              [] address % 8 = 7 ->
                   [bus EXCEPT !.ppu = write_ppu_data_ppu(bus.ppu, value),
                               !.cartridge = write_ppu_data_cart(bus.ppu, bus.cartridge, value)]
  ELSE IF address = 16404
       THEN With(read_page(bus, value * 256, 0, 256, [i \in 0..255 |-> 0]), LAMBDA page :
              [page.bus EXCEPT !.ppu = oam_dma(@, page.data)])
  ELSE IF address = 16406
       THEN (IF TestBit(value, 0)
             THEN [bus EXCEPT !.port_a = poll(@), !.port_b = poll(@)]
             ELSE bus)
  ELSE IF address = 16407 THEN bus
  ELSE IF address >= 16416
       THEN [bus EXCEPT !.cartridge = CartCpuWrite(@, address, value)]
  ELSE bus

(***************************************************************************)
(* Bus16 as the CPU uses it: dispatch on the implementation behind `bus`.  *)
(***************************************************************************)
BusPeek(bus, address) ==
  IF bus.kind = "flat" THEN SparseGet(bus.bytes, address) ELSE CpuBusPeek(bus, address)
BusReadValue(bus, address) ==
  IF bus.kind = "flat" THEN FlatReadByte(bus, address)
  ELSE IF bus.kind = "cpu_bus" THEN CpuBusReadValue(bus, address)
  ELSE NesReadValue(bus, address)
BusAfterRead(bus, address) ==
  IF bus.kind = "flat" THEN bus
  ELSE IF bus.kind = "cpu_bus" THEN CpuBusAfterRead(bus, address)
  ELSE NesAfterRead(bus, address)
BusWrite(bus, address, value) ==
  IF bus.kind = "flat" THEN FlatWriteByte(bus, address, value)
  ELSE IF bus.kind = "cpu_bus" THEN CpuBusWrite(bus, address, value)
  ELSE NesWrite(bus, address, value)

\* bus.read_byte / read_word / write_byte on the bus a CPU record carries:
\* the value read and the CPU record after the read.
read_byte(m, address) ==
  [v |-> BusReadValue(m.bus, address), m |-> [m EXCEPT !.bus = BusAfterRead(@, address)]]
read_word(m, address) ==
  With(read_byte(m, Wrap16(address)), LAMBDA lower_byte :
  With(read_byte(lower_byte.m, Wrap16(address + 1)), LAMBDA upper_byte :
    [v |-> upper_byte.v * 256 + lower_byte.v, m |-> upper_byte.m]))
write_byte(m, address, value) == [m EXCEPT !.bus = BusWrite(@, address, value)]

(***************************************************************************)
(* CPU.  `ovf` is not a field of the source: it records that an unchecked  *)
(* u16 `+`/`-` of the source overflowed.  A build with overflow checks     *)
(* panics at that point; a build without them wraps, which is the value    *)
(* the model continues with.                                               *)
(***************************************************************************)
RESET_VECTOR == 65532
IRQ_VECTOR == 65534
NMI_VECTOR == 65530
STACK_BASE == 256

CPUNew(bus) ==
  [a |-> 0, x |-> 0, y |-> 0, pc |-> 0, s |-> 0,
   carry |-> FALSE, zero |-> FALSE, irq_disable |-> TRUE, decimal_mode |-> FALSE,
   overflow |-> FALSE, negative |-> FALSE,
   nmi |-> FALSE, last_nmi |-> FALSE, irq |-> FALSE,
   total_cycles |-> 0, jammed |-> FALSE, ovf |-> FALSE, bus |-> bus]

Ovf(m, overflowed) == IF overflowed THEN [m EXCEPT !.ovf = TRUE] ELSE m
AddCycles(m, cycles) == [m EXCEPT !.total_cycles = @ + cycles]

\* `self.pc += length; self.total_cycles += cycles;` at the end of an operation.
Finish(m, length, cycles) ==
  [m EXCEPT !.pc = Wrap16(@ + length),
            !.ovf = @ \/ (m.pc + length > 65535),
            !.total_cycles = @ + cycles]

\* Variant of encode_p that leaves bit 5 of the byte clear.
encode_p_without_bit5(m, brk_command) ==
    128 * B2N(m.negative) + 64 * B2N(m.overflow) + 16 * B2N(brk_command)
  + 8 * B2N(m.decimal_mode) + 4 * B2N(m.irq_disable) + 2 * B2N(m.zero) + B2N(m.carry)
encode_p(m, brk_command) ==
    128 * B2N(m.negative) + 64 * B2N(m.overflow) + 32 + 16 * B2N(brk_command)
  + 8 * B2N(m.decimal_mode) + 4 * B2N(m.irq_disable) + 2 * B2N(m.zero) + B2N(m.carry)

decode_p(m, p) ==
  [m EXCEPT !.negative = TestBit(p, 7), !.overflow = TestBit(p, 6),
            !.decimal_mode = TestBit(p, 3), !.irq_disable = TestBit(p, 2),
            !.zero = TestBit(p, 1), !.carry = TestBit(p, 0)]

status_register(m) == encode_p(m, FALSE)

set_nz_flags(m, value) ==
  [m EXCEPT !.zero = (value = 0), !.negative = TestBit(value, 7)]

crosses_page_boundary(a, b) == BitAnd(a, 65280) # BitAnd(b, 65280)

push_byte(m, value) ==
  [write_byte(m, STACK_BASE + m.s, value) EXCEPT !.s = Wrap8(m.s + 255)]
push_word(m, value) ==
  push_byte(push_byte(m, BitAnd(value, 65280) \div 256), BitAnd(value, 255))
\* Variant of pull_byte whose address is not wrapped into the stack page.
pull_byte_unwrapped(m) ==
  With([m EXCEPT !.s = Wrap8(@ + 1)], LAMBDA m1 :
    read_byte(m1, STACK_BASE + m.s + 1))
pull_byte(m) ==
  With([m EXCEPT !.s = Wrap8(@ + 1)], LAMBDA m1 :
    read_byte(m1, STACK_BASE + m1.s))
pull_word(m) ==
  With(pull_byte(m), LAMBDA l_byte :
  With(pull_byte(l_byte.m), LAMBDA h_byte :
    [v |-> h_byte.v * 256 + l_byte.v, m |-> h_byte.m]))

\* Variant of reset that leaves the stack pointer at the top of the page.
reset_stack_top(m) ==
  With(read_word(m, RESET_VECTOR), LAMBDA vector :
    [vector.m EXCEPT !.pc = vector.v, !.s = 255, !.irq_disable = TRUE,
                      !.total_cycles = @ + 7])

reset(m) ==
  With(read_word(m, RESET_VECTOR), LAMBDA vector :
    [vector.m EXCEPT !.pc = vector.v, !.s = 253, !.irq_disable = TRUE,
                      !.total_cycles = @ + 7])

\* Variant of the NMI entry that does not set the I flag.
nmi_keeps_irq_enabled(m) ==
  With(push_word(m, m.pc), LAMBDA m1 :
  With(push_byte(m1, encode_p(m1, FALSE)), LAMBDA m2 :
  With(read_word(m2, NMI_VECTOR), LAMBDA vector :
    [vector.m EXCEPT !.pc = vector.v, !.total_cycles = @ + 7])))

nmi(m) ==
  With(push_word(m, m.pc), LAMBDA m1 :
  With(push_byte(m1, encode_p(m1, FALSE)), LAMBDA m2 :
  With(read_word([m2 EXCEPT !.irq_disable = TRUE], NMI_VECTOR), LAMBDA vector :
    [vector.m EXCEPT !.pc = vector.v, !.total_cycles = @ + 7])))

irq(m) ==
  With(push_word(m, m.pc), LAMBDA m1 :
  With(push_byte(m1, encode_p(m1, FALSE)), LAMBDA m2 :
  With(read_word([m2 EXCEPT !.irq_disable = TRUE], IRQ_VECTOR), LAMBDA vector :
    [vector.m EXCEPT !.pc = vector.v, !.total_cycles = @ + 7])))

(***************************************************************************)
(* Addressing-mode resolution.  Each resolver yields the effective address *)
(* and the CPU record after the bus reads (and the page-cross cycle).      *)
(***************************************************************************)
resolve_address_immediate(m) ==
  [addr |-> Wrap16(m.pc + 1), m |-> Ovf(m, m.pc + 1 > 65535)]

resolve_address_absolute(m) ==
  With(read_word(Ovf(m, m.pc + 1 > 65535), Wrap16(m.pc + 1)), LAMBDA w :
    [addr |-> w.v, m |-> w.m])

resolve_address_zero_page(m) ==
  With(read_byte(Ovf(m, m.pc + 1 > 65535), Wrap16(m.pc + 1)), LAMBDA b :
    [addr |-> b.v, m |-> b.m])

\* Variant of the ZeroPage,X resolver that carries into page 1.
resolve_address_indexed_zero_page_x_unwrapped(m) ==
  With(read_byte(Ovf(m, m.pc + 1 > 65535), Wrap16(m.pc + 1)), LAMBDA base_address :
    [addr |-> base_address.v + m.x, m |-> base_address.m])
resolve_address_indexed_zero_page_x(m) ==
  With(read_byte(Ovf(m, m.pc + 1 > 65535), Wrap16(m.pc + 1)), LAMBDA base_address :
    [addr |-> Wrap8(base_address.v + m.x), m |-> base_address.m])

resolve_address_indexed_zero_page_y(m) ==
  With(read_byte(Ovf(m, m.pc + 1 > 65535), Wrap16(m.pc + 1)), LAMBDA base_address :
    [addr |-> Wrap8(base_address.v + m.y), m |-> base_address.m])

IndexedAbsolute(m, index, extra_cycles) ==
  With(read_word(Ovf(m, m.pc + 1 > 65535), Wrap16(m.pc + 1)), LAMBDA base_address :
  With(Wrap16(base_address.v + index), LAMBDA effective_address :
    [addr |-> effective_address,
      m |-> IF extra_cycles /\ crosses_page_boundary(base_address.v, effective_address)
            THEN AddCycles(base_address.m, 1) ELSE base_address.m]))

\* Variant of the Absolute,X resolver that charges every page crossing.
resolve_address_indexed_absolute_x_always_charges(m, extra_cycles) ==
  IndexedAbsolute(m, m.x, TRUE)
resolve_address_indexed_absolute_x(m, extra_cycles) == IndexedAbsolute(m, m.x, extra_cycles)
resolve_address_indexed_absolute_y(m, extra_cycles) == IndexedAbsolute(m, m.y, extra_cycles)

\* Variant of read_word_with_page_wrapping that carries into the next page.
read_word_without_page_wrapping(m, address) == read_word(m, address)
read_word_with_page_wrapping(m, address) ==
  With(read_byte(m, address), LAMBDA low_byte :
  With(read_byte(low_byte.m,
                             BitOr(BitAnd(address, 65280), BitAnd(Wrap16(address + 1), 255))), LAMBDA high_byte :
    [v |-> high_byte.v * 256 + low_byte.v, m |-> high_byte.m]))

resolve_address_indexed_indirect_x(m) ==
  With(read_byte(Ovf(m, m.pc + 1 > 65535), Wrap16(m.pc + 1)), LAMBDA base_address :
  With(read_word_with_page_wrapping(base_address.m, Wrap8(base_address.v + m.x)), LAMBDA w :
    [addr |-> w.v, m |-> w.m]))

resolve_address_indirect_indexed_y(m, extra_cycles) ==
  With(read_byte(Ovf(m, m.pc + 1 > 65535), Wrap16(m.pc + 1)), LAMBDA indirect_address :
  With(read_word_with_page_wrapping(indirect_address.m, indirect_address.v), LAMBDA base_address :
  With(Wrap16(base_address.v + m.y), LAMBDA effective_address :
    [addr |-> effective_address,
      m |-> IF extra_cycles /\ crosses_page_boundary(base_address.v, effective_address)
            THEN AddCycles(base_address.m, 1) ELSE base_address.m])))

resolve_address_absolute_indirect(m) ==
  With(read_word(Ovf(m, m.pc + 1 > 65535), Wrap16(m.pc + 1)), LAMBDA indirect_address :
  With(read_word_with_page_wrapping(indirect_address.m, indirect_address.v), LAMBDA w :
    [addr |-> w.v, m |-> w.m]))

\* Called with pc already advanced past the branch: the offset byte is at pc - 1.
resolve_address_relative(m) ==
  With(read_byte(Ovf(m, m.pc < 1), Wrap16(m.pc + 65535)), LAMBDA b :
  With(IF b.v >= 128 THEN b.v - 256 ELSE b.v, LAMBDA offset :
    [addr |-> Wrap16(m.pc + offset + 65536), m |-> b.m]))

Resolve(m, mode, extra) ==
  CASE mode = "none" -> [addr |-> None, m |-> m]
    [] mode = "accumulator" -> [addr |-> None, m |-> m]
    [] mode = "immediate" -> resolve_address_immediate(m)
    [] mode = "absolute" -> resolve_address_absolute(m)
    [] mode = "zero_page" -> resolve_address_zero_page(m)
    [] mode = "indexed_zero_page_x" -> resolve_address_indexed_zero_page_x(m)
    [] mode = "indexed_zero_page_y" -> resolve_address_indexed_zero_page_y(m)
    [] mode = "indexed_absolute_x" -> resolve_address_indexed_absolute_x(m, extra)
    [] mode = "indexed_absolute_y" -> resolve_address_indexed_absolute_y(m, extra)
    [] mode = "indexed_indirect_x" -> resolve_address_indexed_indirect_x(m)
    [] mode = "indirect_indexed_y" -> resolve_address_indirect_indexed_y(m, extra)
    [] mode = "absolute_indirect" -> resolve_address_absolute_indirect(m)

(***************************************************************************)
(* Operations.  op(m, address, length, cycles) is the Rust method of the   *)
(* same name applied to the CPU record m.                                  *)
(***************************************************************************)
pha(m, length, cycles) == Finish(push_byte(m, m.a), length, cycles)
php(m, length, cycles) == Finish(push_byte(m, encode_p(m, TRUE)), length, cycles)
pla(m, length, cycles) ==
  With(pull_byte(m), LAMBDA b :
    Finish(set_nz_flags([b.m EXCEPT !.a = b.v], b.v), length, cycles))
plp(m, length, cycles) ==
  With(pull_byte(m), LAMBDA p :
    Finish(decode_p(p.m, p.v), length, cycles))

\* Variant of jsr that pushes the address of the next instruction.
jsr_pushes_next(m, jmp_address, length, cycles) ==
  With(push_word(Ovf(m, m.pc + length > 65535), Wrap16(m.pc + length)), LAMBDA m1 :
    [m1 EXCEPT !.pc = jmp_address, !.total_cycles = @ + cycles])
jsr(m, jmp_address, length, cycles) ==
  With(push_word(Ovf(m, m.pc + length > 65535), Wrap16(m.pc + length + 65535)), LAMBDA m1 :
    [m1 EXCEPT !.pc = jmp_address, !.total_cycles = @ + cycles])

rts(m, cycles) ==
  With(pull_word(m), LAMBDA jmp_address :
    [Ovf(jmp_address.m, jmp_address.v + 1 > 65535) EXCEPT
        !.pc = Wrap16(jmp_address.v + 1), !.total_cycles = @ + cycles])

\* Variant of brk that pushes the address of the byte after the opcode.
brk_pushes_next(m, cycles) ==
  With(Wrap16(m.pc + 1), LAMBDA return_address :
  With(push_word(Ovf(m, m.pc + 1 > 65535), return_address), LAMBDA m1 :
  With(push_byte(m1, encode_p(m1, TRUE)), LAMBDA m2 :
  With(read_word([m2 EXCEPT !.irq_disable = TRUE], IRQ_VECTOR), LAMBDA vector :
    [vector.m EXCEPT !.pc = vector.v, !.total_cycles = @ + cycles]))))
brk(m, cycles) ==
  With(Wrap16(m.pc + 2), LAMBDA return_address :
  With(push_word(Ovf(m, m.pc + 2 > 65535), return_address), LAMBDA m1 :
  With(push_byte(m1, encode_p(m1, TRUE)), LAMBDA m2 :
  With(read_word([m2 EXCEPT !.irq_disable = TRUE], IRQ_VECTOR), LAMBDA vector :
    [vector.m EXCEPT !.pc = vector.v, !.total_cycles = @ + cycles]))))

\* Variant of rti that pulls the return address before the status byte.
rti_pulls_pc_first(m, cycles) ==
  With(pull_word(m), LAMBDA return_address :
  With(pull_byte(return_address.m), LAMBDA p :
    [decode_p(p.m, p.v) EXCEPT !.pc = return_address.v, !.total_cycles = @ + cycles]))
rti(m, cycles) ==
  With(pull_byte(m), LAMBDA p :
  With(pull_word(decode_p(p.m, p.v)), LAMBDA return_address :
    [return_address.m EXCEPT !.pc = return_address.v, !.total_cycles = @ + cycles]))

\* Variant of adder whose carry-out ignores the addition of the carry-in.
adder_first_carry_only(rhs, lhs, carry) ==
  With(Wrap8(rhs + lhs), LAMBDA sum1 :
  With(Wrap8(sum1 + B2N(carry)), LAMBDA sum :
    [sum |-> sum, carry |-> rhs + lhs > 255,
      overflow |-> BitAnd(BitAnd(BitXor(sum, rhs), BitXor(sum, lhs)), 128) # 0]))

\* (sum, carry, overflow) of rhs + lhs + carry in eight bits.
adder(rhs, lhs, carry) ==
  With(Wrap8(rhs + lhs), LAMBDA sum1 :
  With(rhs + lhs > 255, LAMBDA carry1 :
  With(Wrap8(sum1 + B2N(carry)), LAMBDA sum :
  With(sum1 + B2N(carry) > 255, LAMBDA carry2 :
    [sum |-> sum, carry |-> carry1 \/ carry2,
      overflow |-> BitAnd(BitAnd(BitXor(sum, rhs), BitXor(sum, lhs)), 128) # 0]))))

adc(m, address, length, cycles) ==
  With(read_byte(m, address), LAMBDA value :
  With(adder(m.a, value.v, m.carry), LAMBDA r :
    Finish(set_nz_flags([value.m EXCEPT !.a = r.sum, !.carry = r.carry,
                                         !.overflow = r.overflow], r.sum),
            length, cycles)))

sbc(m, address, length, cycles) ==
  With(read_byte(m, address), LAMBDA value :
  With(adder(m.a, BitNot8(value.v), m.carry), LAMBDA r :
    Finish(set_nz_flags([value.m EXCEPT !.a = r.sum, !.carry = r.carry,
                                         !.overflow = r.overflow], r.sum),
            length, cycles)))

and(m, address, length, cycles) ==
  With(read_byte(m, address), LAMBDA value :
  With(BitAnd(m.a, value.v), LAMBDA result :
    Finish(set_nz_flags([value.m EXCEPT !.a = result], result), length, cycles)))

ora(m, address, length, cycles) ==
  With(read_byte(m, address), LAMBDA value :
  With(BitOr(m.a, value.v), LAMBDA result :
    Finish(set_nz_flags([value.m EXCEPT !.a = result], result), length, cycles)))

eor(m, address, length, cycles) ==
  With(read_byte(m, address), LAMBDA value :
  With(BitXor(m.a, value.v), LAMBDA result :
    Finish(set_nz_flags([value.m EXCEPT !.a = result], result), length, cycles)))

bit(m, address, length, cycles) ==
  With(read_byte(m, address), LAMBDA value :
    Finish([value.m EXCEPT !.zero = (BitAnd(m.a, value.v) = 0),
                            !.negative = TestBit(value.v, 7),
                            !.overflow = TestBit(value.v, 6)], length, cycles))

AslResult(value, carry) == [result |-> Wrap8(value * 2), carry |-> TestBit(value, 7)]
LsrResult(value, carry) == [result |-> value \div 2, carry |-> TestBit(value, 0)]
RolResult(value, carry) ==
  [result |-> Wrap8(value * 2) + B2N(carry), carry |-> TestBit(value, 7)]
RorResult(value, carry) ==
  [result |-> (value \div 2) + 128 * B2N(carry), carry |-> TestBit(value, 0)]

\* Shared shape of ASL/LSR/ROL/ROR: the operand is memory (Some(address)) or
\* the accumulator (None); `r` is the result and carry-out computed from the
\* operand `rd.v` and the carry-in.
ShiftOp(m, address, length, cycles, rd, r) ==
  With([set_nz_flags(rd.m, r.result) EXCEPT !.carry = r.carry], LAMBDA m1 :
  With(IF address # None THEN write_byte(m1, address, r.result)
            ELSE [m1 EXCEPT !.a = r.result], LAMBDA m2 :
    Finish(m2, length, cycles)))

ShiftOperand(m, address) ==
  IF address # None THEN read_byte(m, address) ELSE [v |-> m.a, m |-> m]

asl(m, address, length, cycles) ==
  With(ShiftOperand(m, address), LAMBDA rd :
    ShiftOp(m, address, length, cycles, rd, AslResult(rd.v, m.carry)))
lsr(m, address, length, cycles) ==
  With(ShiftOperand(m, address), LAMBDA rd :
    ShiftOp(m, address, length, cycles, rd, LsrResult(rd.v, m.carry)))
rol(m, address, length, cycles) ==
  With(ShiftOperand(m, address), LAMBDA rd :
    ShiftOp(m, address, length, cycles, rd, RolResult(rd.v, m.carry)))
ror(m, address, length, cycles) ==
  With(ShiftOperand(m, address), LAMBDA rd :
    ShiftOp(m, address, length, cycles, rd, RorResult(rd.v, m.carry)))

jmp(m, jmp_address, cycles) ==
  [m EXCEPT !.pc = jmp_address, !.total_cycles = @ + cycles]

\* Variant of relative_conditional_branch without the page-crossing cycle.
relative_conditional_branch_flat(m, should_branch) ==
  IF should_branch
  THEN With(resolve_address_relative(m), LAMBDA target_address :
         [target_address.m EXCEPT !.total_cycles = @ + 1, !.pc = target_address.addr])
  ELSE m
relative_conditional_branch(m, should_branch) ==
  IF should_branch
  THEN With(resolve_address_relative(m), LAMBDA target_address :
         [target_address.m EXCEPT
             !.total_cycles = @ + (IF crosses_page_boundary(m.pc, target_address.addr)
                                   THEN 2 ELSE 1),
             !.pc = target_address.addr])
  ELSE m

\* beq/bne/bcc/bcs/bvc/bvs/bmi/bpl: advance pc, branch on the flag, add cycles.
Branch(m, should_branch, length, cycles) ==
  AddCycles(relative_conditional_branch(Finish(m, length, 0), should_branch), cycles)

beq(m, length, cycles) == Branch(m, m.zero, length, cycles)
bne(m, length, cycles) == Branch(m, ~m.zero, length, cycles)
bcc(m, length, cycles) == Branch(m, ~m.carry, length, cycles)
bcs(m, length, cycles) == Branch(m, m.carry, length, cycles)
bvc(m, length, cycles) == Branch(m, ~m.overflow, length, cycles)
bvs(m, length, cycles) == Branch(m, m.overflow, length, cycles)
bmi(m, length, cycles) == Branch(m, m.negative, length, cycles)
bpl(m, length, cycles) == Branch(m, ~m.negative, length, cycles)

compare_value(m, lhs, rhs) ==
  IF lhs < rhs
  THEN [m EXCEPT !.zero = FALSE, !.carry = FALSE,
                 !.negative = TestBit(Wrap8(lhs - rhs + 256), 7)]
  ELSE IF lhs > rhs
  THEN [m EXCEPT !.zero = FALSE, !.carry = TRUE,
                 !.negative = TestBit(Wrap8(lhs - rhs + 256), 7)]
  ELSE [m EXCEPT !.zero = TRUE, !.carry = TRUE, !.negative = FALSE]

cmp(m, address, length, cycles) ==
  With(read_byte(m, address), LAMBDA value :
    Finish(compare_value(value.m, m.a, value.v), length, cycles))
cpx(m, address, length, cycles) ==
  With(read_byte(m, address), LAMBDA value :
    Finish(compare_value(value.m, m.x, value.v), length, cycles))
cpy(m, address, length, cycles) ==
  With(read_byte(m, address), LAMBDA value :
    Finish(compare_value(value.m, m.y, value.v), length, cycles))

inc(m, address, length, cycles) ==
  With(read_byte(m, address), LAMBDA value :
  With(Wrap8(value.v + 1), LAMBDA result :
    Finish(write_byte(set_nz_flags(value.m, result), address, result), length, cycles)))
dec(m, address, length, cycles) ==
  With(read_byte(m, address), LAMBDA value :
  With(Wrap8(value.v + 255), LAMBDA result :
    Finish(write_byte(set_nz_flags(value.m, result), address, result), length, cycles)))

inx(m, length, cycles) ==
  Finish(set_nz_flags([m EXCEPT !.x = Wrap8(@ + 1)], Wrap8(m.x + 1)), length, cycles)
iny(m, length, cycles) ==
  Finish(set_nz_flags([m EXCEPT !.y = Wrap8(@ + 1)], Wrap8(m.y + 1)), length, cycles)
dex(m, length, cycles) ==
  Finish(set_nz_flags([m EXCEPT !.x = Wrap8(@ + 255)], Wrap8(m.x + 255)), length, cycles)
dey(m, length, cycles) ==
  Finish(set_nz_flags([m EXCEPT !.y = Wrap8(@ + 255)], Wrap8(m.y + 255)), length, cycles)

lda(m, address, length, cycles) ==
  With(read_byte(m, address), LAMBDA value :
    Finish(set_nz_flags([value.m EXCEPT !.a = value.v], value.v), length, cycles))
ldx(m, address, length, cycles) ==
  With(read_byte(m, address), LAMBDA value :
    Finish(set_nz_flags([value.m EXCEPT !.x = value.v], value.v), length, cycles))
ldy(m, address, length, cycles) ==
  With(read_byte(m, address), LAMBDA value :
    Finish(set_nz_flags([value.m EXCEPT !.y = value.v], value.v), length, cycles))

sta(m, address, length, cycles) == Finish(write_byte(m, address, m.a), length, cycles)
stx(m, address, length, cycles) == Finish(write_byte(m, address, m.x), length, cycles)
sty(m, address, length, cycles) == Finish(write_byte(m, address, m.y), length, cycles)

tax(m, length, cycles) == Finish(set_nz_flags([m EXCEPT !.x = m.a], m.a), length, cycles)
txa(m, length, cycles) == Finish(set_nz_flags([m EXCEPT !.a = m.x], m.x), length, cycles)
tay(m, length, cycles) == Finish(set_nz_flags([m EXCEPT !.y = m.a], m.a), length, cycles)
tya(m, length, cycles) == Finish(set_nz_flags([m EXCEPT !.a = m.y], m.y), length, cycles)
tsx(m, length, cycles) == Finish(set_nz_flags([m EXCEPT !.x = m.s], m.s), length, cycles)
txs(m, length, cycles) == Finish([m EXCEPT !.s = m.x], length, cycles)

sec(m, length, cycles) == Finish([m EXCEPT !.carry = TRUE], length, cycles)
sed(m, length, cycles) == Finish([m EXCEPT !.decimal_mode = TRUE], length, cycles)
sei(m, length, cycles) == Finish([m EXCEPT !.irq_disable = TRUE], length, cycles)
clc(m, length, cycles) == Finish([m EXCEPT !.carry = FALSE], length, cycles)
cld(m, length, cycles) == Finish([m EXCEPT !.decimal_mode = FALSE], length, cycles)
cli(m, length, cycles) == Finish([m EXCEPT !.irq_disable = FALSE], length, cycles)
clv(m, length, cycles) == Finish([m EXCEPT !.overflow = FALSE], length, cycles)
nop(m, length, cycles) == Finish(m, length, cycles)

\* "Illegal" operations.
lax(m, address, length, cycles) ==
  With(read_byte(m, address), LAMBDA value :
    Finish(set_nz_flags([value.m EXCEPT !.a = value.v, !.x = value.v], value.v),
            length, cycles))
sax(m, address, length, cycles) ==
  Finish(write_byte(m, address, BitAnd(m.a, m.x)), length, cycles)
dcp(m, address, length, cycles) ==
  Finish(cmp(dec(m, address, 0, 0), address, 0, 0), length, cycles)
isc(m, address, length, cycles) ==
  Finish(sbc(inc(m, address, 0, 0), address, 0, 0), length, cycles)
slo(m, address, length, cycles) ==
  Finish(ora(asl(m, address, 0, 0), address, 0, 0), length, cycles)
rla(m, address, length, cycles) ==
  Finish(and(rol(m, address, 0, 0), address, 0, 0), length, cycles)
sre(m, address, length, cycles) ==
  Finish(eor(lsr(m, address, 0, 0), address, 0, 0), length, cycles)
rra(m, address, length, cycles) ==
  Finish(adc(ror(m, address, 0, 0), address, 0, 0), length, cycles)
anc(m, address, length, cycles) ==
  With(and(m, address, 0, 0), LAMBDA m1 :
    Finish([m1 EXCEPT !.carry = m1.negative], length, cycles))
alr(m, address, length, cycles) ==
  Finish(lsr(and(m, address, 0, 0), None, 0, 0), length, cycles)
arr(m, address, length, cycles) ==
  With(ror(and(m, address, 0, 0), None, 0, 0), LAMBDA m1 :
    Finish([m1 EXCEPT !.carry = BitAnd(m1.a, 64) # 0,
                       !.overflow = BitXor(BitAnd(m1.a, 64), BitAnd(m1.a, 32)) # 0],
            length, cycles))
xaa(m, address, length, cycles) ==
  Finish(and([m EXCEPT !.a = BitAnd(m.a, m.x)], address, 0, 0), length, cycles)
lxa(m, address, length, cycles) ==
  With(and(m, address, 0, 0), LAMBDA m1 :
    Finish([m1 EXCEPT !.x = m1.a], length, cycles))
sha(m, address, length, cycles) ==
  Finish(write_byte(m, address,
                    BitAnd(BitAnd(m.a, m.x), Wrap8((address \div 256) + 1))),
         length, cycles)
shx(m, address, length, cycles) ==
  Finish(write_byte(m, address, BitAnd(m.x, Wrap8((address \div 256) + 1))), length, cycles)
shy(m, address, length, cycles) ==
  Finish(write_byte(m, address, BitAnd(m.y, Wrap8((address \div 256) + 1))), length, cycles)
tas(m, address, length, cycles) ==
  Finish(sha([m EXCEPT !.s = BitAnd(m.a, m.x)], address, 0, 0), length, cycles)
las(m, address, length, cycles) ==
  With(read_byte(m, address), LAMBDA value :
  With(BitAnd(value.v, m.s), LAMBDA result :
    Finish([value.m EXCEPT !.a = result, !.x = result, !.s = result], length, cycles)))
sbx(m, address, length, cycles) ==
  With(read_byte(m, address), LAMBDA value :
  With(BitAnd(m.a, m.x), LAMBDA intermediate :
  With(Wrap8(intermediate - value.v + 256), LAMBDA x :
    Finish(compare_value([value.m EXCEPT !.x = x], intermediate, x), length, cycles))))
\* Variant of jam that does not halt the CPU.
jam_without_halt(m) == m
\* Variant of jam that charges the two cycles of an implied instruction.
jam_charging_cycles(m) == AddCycles([m EXCEPT !.jammed = TRUE], 2)
jam(m) == [m EXCEPT !.jammed = TRUE]

(***************************************************************************)
(* The 256-way dispatch of execute_instruction: for each opcode (index     *)
(* opcode + 1) the operation, the addressing-mode resolver with its        *)
(* charge-on-crossing flag, and the length and cycle arguments.            *)
(***************************************************************************)
OpcodeTable ==
  <<
    [op |-> "brk", mode |-> "none", extra |-> FALSE, length |-> 0, cycles |-> 7],
    [op |-> "ora", mode |-> "indexed_indirect_x", extra |-> FALSE, length |-> 2, cycles |-> 6],
    [op |-> "jam", mode |-> "none", extra |-> FALSE, length |-> 0, cycles |-> 0],
    [op |-> "slo", mode |-> "indexed_indirect_x", extra |-> FALSE, length |-> 2, cycles |-> 8],
    [op |-> "nop", mode |-> "none", extra |-> FALSE, length |-> 2, cycles |-> 3],
    [op |-> "ora", mode |-> "zero_page", extra |-> FALSE, length |-> 2, cycles |-> 3],
    [op |-> "asl", mode |-> "zero_page", extra |-> FALSE, length |-> 2, cycles |-> 5],
    [op |-> "slo", mode |-> "zero_page", extra |-> FALSE, length |-> 2, cycles |-> 5],
    [op |-> "php", mode |-> "none", extra |-> FALSE, length |-> 1, cycles |-> 3],
    [op |-> "ora", mode |-> "immediate", extra |-> FALSE, length |-> 2, cycles |-> 2],
    [op |-> "asl", mode |-> "accumulator", extra |-> FALSE, length |-> 1, cycles |-> 2],
    [op |-> "anc", mode |-> "immediate", extra |-> FALSE, length |-> 2, cycles |-> 2],
    [op |-> "nop", mode |-> "none", extra |-> FALSE, length |-> 3, cycles |-> 4],
    [op |-> "ora", mode |-> "absolute", extra |-> FALSE, length |-> 3, cycles |-> 4],
    [op |-> "asl", mode |-> "absolute", extra |-> FALSE, length |-> 3, cycles |-> 6],
    [op |-> "slo", mode |-> "absolute", extra |-> FALSE, length |-> 3, cycles |-> 6],
    [op |-> "bpl", mode |-> "none", extra |-> FALSE, length |-> 2, cycles |-> 2],
    [op |-> "ora", mode |-> "indirect_indexed_y", extra |-> TRUE, length |-> 2, cycles |-> 5],
    [op |-> "jam", mode |-> "none", extra |-> FALSE, length |-> 0, cycles |-> 0],
    [op |-> "slo", mode |-> "indirect_indexed_y", extra |-> FALSE, length |-> 2, cycles |-> 8],
    [op |-> "nop", mode |-> "none", extra |-> FALSE, length |-> 2, cycles |-> 4],
    [op |-> "ora", mode |-> "indexed_zero_page_x", extra |-> FALSE, length |-> 2, cycles |-> 4],
    [op |-> "asl", mode |-> "indexed_zero_page_x", extra |-> FALSE, length |-> 2, cycles |-> 6],
    [op |-> "slo", mode |-> "indexed_zero_page_x", extra |-> FALSE, length |-> 2, cycles |-> 6],
    [op |-> "clc", mode |-> "none", extra |-> FALSE, length |-> 1, cycles |-> 2],
    [op |-> "ora", mode |-> "indexed_absolute_y", extra |-> TRUE, length |-> 3, cycles |-> 4],
    [op |-> "nop", mode |-> "none", extra |-> FALSE, length |-> 1, cycles |-> 2],
    [op |-> "slo", mode |-> "indexed_absolute_y", extra |-> FALSE, length |-> 3, cycles |-> 7],
    [op |-> "nop", mode |-> "indexed_absolute_x", extra |-> TRUE, length |-> 3, cycles |-> 4],
    [op |-> "ora", mode |-> "indexed_absolute_x", extra |-> TRUE, length |-> 3, cycles |-> 4],
    [op |-> "asl", mode |-> "indexed_absolute_x", extra |-> FALSE, length |-> 3, cycles |-> 7],
    [op |-> "slo", mode |-> "indexed_absolute_x", extra |-> FALSE, length |-> 3, cycles |-> 7],
    [op |-> "jsr", mode |-> "absolute", extra |-> FALSE, length |-> 3, cycles |-> 6],
    [op |-> "and", mode |-> "indexed_indirect_x", extra |-> FALSE, length |-> 2, cycles |-> 6],
    [op |-> "jam", mode |-> "none", extra |-> FALSE, length |-> 0, cycles |-> 0],
    [op |-> "rla", mode |-> "indexed_indirect_x", extra |-> FALSE, length |-> 2, cycles |-> 8],
    [op |-> "bit", mode |-> "zero_page", extra |-> FALSE, length |-> 2, cycles |-> 3],
    [op |-> "and", mode |-> "zero_page", extra |-> FALSE, length |-> 2, cycles |-> 3],
    [op |-> "rol", mode |-> "zero_page", extra |-> FALSE, length |-> 2, cycles |-> 5],
    [op |-> "rla", mode |-> "zero_page", extra |-> FALSE, length |-> 2, cycles |-> 5],
    [op |-> "plp", mode |-> "none", extra |-> FALSE, length |-> 1, cycles |-> 4],
    [op |-> "and", mode |-> "immediate", extra |-> FALSE, length |-> 2, cycles |-> 2],
    [op |-> "rol", mode |-> "accumulator", extra |-> FALSE, length |-> 1, cycles |-> 2],
    [op |-> "anc", mode |-> "immediate", extra |-> FALSE, length |-> 2, cycles |-> 2],
    [op |-> "bit", mode |-> "absolute", extra |-> FALSE, length |-> 3, cycles |-> 4],
    [op |-> "and", mode |-> "absolute", extra |-> FALSE, length |-> 3, cycles |-> 4],
    [op |-> "rol", mode |-> "absolute", extra |-> FALSE, length |-> 3, cycles |-> 6],
    [op |-> "rla", mode |-> "absolute", extra |-> FALSE, length |-> 3, cycles |-> 6],
    [op |-> "bmi", mode |-> "none", extra |-> FALSE, length |-> 2, cycles |-> 2],
    [op |-> "and", mode |-> "indirect_indexed_y", extra |-> TRUE, length |-> 2, cycles |-> 5],
    [op |-> "jam", mode |-> "none", extra |-> FALSE, length |-> 0, cycles |-> 0],
    [op |-> "rla", mode |-> "indirect_indexed_y", extra |-> FALSE, length |-> 2, cycles |-> 8],
    [op |-> "nop", mode |-> "none", extra |-> FALSE, length |-> 2, cycles |-> 4],
    [op |-> "and", mode |-> "indexed_zero_page_x", extra |-> FALSE, length |-> 2, cycles |-> 4],
    [op |-> "rol", mode |-> "indexed_zero_page_x", extra |-> FALSE, length |-> 2, cycles |-> 6],
    [op |-> "rla", mode |-> "indexed_zero_page_x", extra |-> FALSE, length |-> 2, cycles |-> 6],
    [op |-> "sec", mode |-> "none", extra |-> FALSE, length |-> 1, cycles |-> 2],
    [op |-> "and", mode |-> "indexed_absolute_y", extra |-> TRUE, length |-> 3, cycles |-> 4],
    [op |-> "nop", mode |-> "none", extra |-> FALSE, length |-> 1, cycles |-> 2],
    [op |-> "rla", mode |-> "indexed_absolute_y", extra |-> FALSE, length |-> 3, cycles |-> 7],
    [op |-> "nop", mode |-> "indexed_absolute_x", extra |-> TRUE, length |-> 3, cycles |-> 4],
    [op |-> "and", mode |-> "indexed_absolute_x", extra |-> TRUE, length |-> 3, cycles |-> 4],
    [op |-> "rol", mode |-> "indexed_absolute_x", extra |-> FALSE, length |-> 3, cycles |-> 7],
    [op |-> "rla", mode |-> "indexed_absolute_x", extra |-> FALSE, length |-> 3, cycles |-> 7],
    [op |-> "rti", mode |-> "none", extra |-> FALSE, length |-> 0, cycles |-> 6],
    [op |-> "eor", mode |-> "indexed_indirect_x", extra |-> FALSE, length |-> 2, cycles |-> 6],
    [op |-> "jam", mode |-> "none", extra |-> FALSE, length |-> 0, cycles |-> 0],
    [op |-> "sre", mode |-> "indexed_indirect_x", extra |-> FALSE, length |-> 2, cycles |-> 8],
    [op |-> "nop", mode |-> "none", extra |-> FALSE, length |-> 2, cycles |-> 3],
    [op |-> "eor", mode |-> "zero_page", extra |-> FALSE, length |-> 2, cycles |-> 3],
    [op |-> "lsr", mode |-> "zero_page", extra |-> FALSE, length |-> 2, cycles |-> 5],
    [op |-> "sre", mode |-> "zero_page", extra |-> FALSE, length |-> 2, cycles |-> 5],
    [op |-> "pha", mode |-> "none", extra |-> FALSE, length |-> 1, cycles |-> 3],
    [op |-> "eor", mode |-> "immediate", extra |-> FALSE, length |-> 2, cycles |-> 2],
    [op |-> "lsr", mode |-> "accumulator", extra |-> FALSE, length |-> 1, cycles |-> 2],
    [op |-> "alr", mode |-> "immediate", extra |-> FALSE, length |-> 2, cycles |-> 2],
    [op |-> "jmp", mode |-> "absolute", extra |-> FALSE, length |-> 0, cycles |-> 3],
    [op |-> "eor", mode |-> "absolute", extra |-> FALSE, length |-> 3, cycles |-> 4],
    [op |-> "lsr", mode |-> "absolute", extra |-> FALSE, length |-> 3, cycles |-> 6],
    [op |-> "sre", mode |-> "absolute", extra |-> FALSE, length |-> 3, cycles |-> 6],
    [op |-> "bvc", mode |-> "none", extra |-> FALSE, length |-> 2, cycles |-> 2],
    [op |-> "eor", mode |-> "indirect_indexed_y", extra |-> TRUE, length |-> 2, cycles |-> 5],
    [op |-> "jam", mode |-> "none", extra |-> FALSE, length |-> 0, cycles |-> 0],
    [op |-> "sre", mode |-> "indirect_indexed_y", extra |-> FALSE, length |-> 2, cycles |-> 8],
    [op |-> "nop", mode |-> "none", extra |-> FALSE, length |-> 2, cycles |-> 4],
    [op |-> "eor", mode |-> "indexed_zero_page_x", extra |-> FALSE, length |-> 2, cycles |-> 4],
    [op |-> "lsr", mode |-> "indexed_zero_page_x", extra |-> FALSE, length |-> 2, cycles |-> 6],
    [op |-> "sre", mode |-> "indexed_zero_page_x", extra |-> FALSE, length |-> 2, cycles |-> 6],
    [op |-> "cli", mode |-> "none", extra |-> FALSE, length |-> 1, cycles |-> 2],
    [op |-> "eor", mode |-> "indexed_absolute_y", extra |-> TRUE, length |-> 3, cycles |-> 4],
    [op |-> "nop", mode |-> "none", extra |-> FALSE, length |-> 1, cycles |-> 2],
    [op |-> "sre", mode |-> "indexed_absolute_y", extra |-> FALSE, length |-> 3, cycles |-> 7],
    [op |-> "nop", mode |-> "indexed_absolute_x", extra |-> TRUE, length |-> 3, cycles |-> 4],
    [op |-> "eor", mode |-> "indexed_absolute_x", extra |-> TRUE, length |-> 3, cycles |-> 4],
    [op |-> "lsr", mode |-> "indexed_absolute_x", extra |-> FALSE, length |-> 3, cycles |-> 7],
    [op |-> "sre", mode |-> "indexed_absolute_x", extra |-> FALSE, length |-> 3, cycles |-> 7],
    [op |-> "rts", mode |-> "none", extra |-> FALSE, length |-> 0, cycles |-> 6],
    [op |-> "adc", mode |-> "indexed_indirect_x", extra |-> FALSE, length |-> 2, cycles |-> 6],
    [op |-> "jam", mode |-> "none", extra |-> FALSE, length |-> 0, cycles |-> 0],
    [op |-> "rra", mode |-> "indexed_indirect_x", extra |-> FALSE, length |-> 2, cycles |-> 8],
    [op |-> "nop", mode |-> "none", extra |-> FALSE, length |-> 2, cycles |-> 3],
    [op |-> "adc", mode |-> "zero_page", extra |-> FALSE, length |-> 2, cycles |-> 3],
    [op |-> "ror", mode |-> "zero_page", extra |-> FALSE, length |-> 2, cycles |-> 5],
    [op |-> "rra", mode |-> "zero_page", extra |-> FALSE, length |-> 2, cycles |-> 5],
    [op |-> "pla", mode |-> "none", extra |-> FALSE, length |-> 1, cycles |-> 4],
    [op |-> "adc", mode |-> "immediate", extra |-> FALSE, length |-> 2, cycles |-> 2],
    [op |-> "ror", mode |-> "accumulator", extra |-> FALSE, length |-> 1, cycles |-> 2],
    [op |-> "arr", mode |-> "immediate", extra |-> FALSE, length |-> 2, cycles |-> 2],
    [op |-> "jmp", mode |-> "absolute_indirect", extra |-> FALSE, length |-> 0, cycles |-> 5],
    [op |-> "adc", mode |-> "absolute", extra |-> FALSE, length |-> 3, cycles |-> 4],
    [op |-> "ror", mode |-> "absolute", extra |-> FALSE, length |-> 3, cycles |-> 6],
    [op |-> "rra", mode |-> "absolute", extra |-> FALSE, length |-> 3, cycles |-> 6],
    [op |-> "bvs", mode |-> "none", extra |-> FALSE, length |-> 2, cycles |-> 2],
    [op |-> "adc", mode |-> "indirect_indexed_y", extra |-> TRUE, length |-> 2, cycles |-> 5],
    [op |-> "jam", mode |-> "none", extra |-> FALSE, length |-> 0, cycles |-> 0],
    [op |-> "rra", mode |-> "indirect_indexed_y", extra |-> FALSE, length |-> 2, cycles |-> 8],
    [op |-> "nop", mode |-> "none", extra |-> FALSE, length |-> 2, cycles |-> 4],
    [op |-> "adc", mode |-> "indexed_zero_page_x", extra |-> FALSE, length |-> 2, cycles |-> 4],
    [op |-> "ror", mode |-> "indexed_zero_page_x", extra |-> FALSE, length |-> 2, cycles |-> 6],
    [op |-> "rra", mode |-> "indexed_zero_page_x", extra |-> FALSE, length |-> 2, cycles |-> 6],
    [op |-> "sei", mode |-> "none", extra |-> FALSE, length |-> 1, cycles |-> 2],
    [op |-> "adc", mode |-> "indexed_absolute_y", extra |-> TRUE, length |-> 3, cycles |-> 4],
    [op |-> "nop", mode |-> "none", extra |-> FALSE, length |-> 1, cycles |-> 2],
    [op |-> "rra", mode |-> "indexed_absolute_y", extra |-> FALSE, length |-> 3, cycles |-> 7],
    [op |-> "nop", mode |-> "indexed_absolute_x", extra |-> TRUE, length |-> 3, cycles |-> 4],
    [op |-> "adc", mode |-> "indexed_absolute_x", extra |-> TRUE, length |-> 3, cycles |-> 4],
    [op |-> "ror", mode |-> "indexed_absolute_x", extra |-> FALSE, length |-> 3, cycles |-> 7],
    [op |-> "rra", mode |-> "indexed_absolute_x", extra |-> FALSE, length |-> 3, cycles |-> 7],
    [op |-> "nop", mode |-> "none", extra |-> FALSE, length |-> 2, cycles |-> 2],
    [op |-> "sta", mode |-> "indexed_indirect_x", extra |-> FALSE, length |-> 2, cycles |-> 6],
    [op |-> "nop", mode |-> "none", extra |-> FALSE, length |-> 2, cycles |-> 2],
    [op |-> "sax", mode |-> "indexed_indirect_x", extra |-> FALSE, length |-> 2, cycles |-> 6],
    [op |-> "sty", mode |-> "zero_page", extra |-> FALSE, length |-> 2, cycles |-> 3],
    [op |-> "sta", mode |-> "zero_page", extra |-> FALSE, length |-> 2, cycles |-> 3],
    [op |-> "stx", mode |-> "zero_page", extra |-> FALSE, length |-> 2, cycles |-> 3],
    [op |-> "sax", mode |-> "zero_page", extra |-> FALSE, length |-> 2, cycles |-> 3],
    [op |-> "dey", mode |-> "none", extra |-> FALSE, length |-> 1, cycles |-> 2],
    [op |-> "nop", mode |-> "none", extra |-> FALSE, length |-> 2, cycles |-> 2],
    [op |-> "txa", mode |-> "none", extra |-> FALSE, length |-> 1, cycles |-> 2],
    [op |-> "xaa", mode |-> "immediate", extra |-> FALSE, length |-> 2, cycles |-> 2],
    [op |-> "sty", mode |-> "absolute", extra |-> FALSE, length |-> 3, cycles |-> 4],
    [op |-> "sta", mode |-> "absolute", extra |-> FALSE, length |-> 3, cycles |-> 4],
    [op |-> "stx", mode |-> "absolute", extra |-> FALSE, length |-> 3, cycles |-> 4],
    [op |-> "sax", mode |-> "absolute", extra |-> FALSE, length |-> 3, cycles |-> 4],
    [op |-> "bcc", mode |-> "none", extra |-> FALSE, length |-> 2, cycles |-> 2],
    [op |-> "sta", mode |-> "indirect_indexed_y", extra |-> FALSE, length |-> 2, cycles |-> 6],
    [op |-> "jam", mode |-> "none", extra |-> FALSE, length |-> 0, cycles |-> 0],
    [op |-> "sha", mode |-> "indirect_indexed_y", extra |-> FALSE, length |-> 2, cycles |-> 6],
    [op |-> "sty", mode |-> "indexed_zero_page_x", extra |-> FALSE, length |-> 2, cycles |-> 4],
    [op |-> "sta", mode |-> "indexed_zero_page_x", extra |-> FALSE, length |-> 2, cycles |-> 4],
    [op |-> "stx", mode |-> "indexed_zero_page_y", extra |-> FALSE, length |-> 2, cycles |-> 4],
    [op |-> "sax", mode |-> "indexed_zero_page_y", extra |-> FALSE, length |-> 2, cycles |-> 4],
    [op |-> "tya", mode |-> "none", extra |-> FALSE, length |-> 1, cycles |-> 2],
    [op |-> "sta", mode |-> "indexed_absolute_y", extra |-> FALSE, length |-> 3, cycles |-> 5],
    [op |-> "txs", mode |-> "none", extra |-> FALSE, length |-> 1, cycles |-> 2],
    [op |-> "tas", mode |-> "indexed_absolute_y", extra |-> FALSE, length |-> 3, cycles |-> 5],
    [op |-> "shy", mode |-> "indexed_absolute_x", extra |-> FALSE, length |-> 3, cycles |-> 5],
    [op |-> "sta", mode |-> "indexed_absolute_x", extra |-> FALSE, length |-> 3, cycles |-> 5],
    [op |-> "shx", mode |-> "indexed_absolute_y", extra |-> FALSE, length |-> 3, cycles |-> 5],
    [op |-> "sha", mode |-> "indexed_absolute_y", extra |-> FALSE, length |-> 3, cycles |-> 5],
    [op |-> "ldy", mode |-> "immediate", extra |-> FALSE, length |-> 2, cycles |-> 2],
    [op |-> "lda", mode |-> "indexed_indirect_x", extra |-> FALSE, length |-> 2, cycles |-> 6],
    [op |-> "ldx", mode |-> "immediate", extra |-> FALSE, length |-> 2, cycles |-> 2],
    [op |-> "lax", mode |-> "indexed_indirect_x", extra |-> FALSE, length |-> 2, cycles |-> 6],
    [op |-> "ldy", mode |-> "zero_page", extra |-> FALSE, length |-> 2, cycles |-> 3],
    [op |-> "lda", mode |-> "zero_page", extra |-> FALSE, length |-> 2, cycles |-> 3],
    [op |-> "ldx", mode |-> "zero_page", extra |-> FALSE, length |-> 2, cycles |-> 3],
    [op |-> "lax", mode |-> "zero_page", extra |-> FALSE, length |-> 2, cycles |-> 3],
    [op |-> "tay", mode |-> "none", extra |-> FALSE, length |-> 1, cycles |-> 2],
    [op |-> "lda", mode |-> "immediate", extra |-> FALSE, length |-> 2, cycles |-> 2],
    [op |-> "tax", mode |-> "none", extra |-> FALSE, length |-> 1, cycles |-> 2],
    [op |-> "lxa", mode |-> "immediate", extra |-> FALSE, length |-> 2, cycles |-> 2],
    [op |-> "ldy", mode |-> "absolute", extra |-> FALSE, length |-> 3, cycles |-> 4],
    [op |-> "lda", mode |-> "absolute", extra |-> FALSE, length |-> 3, cycles |-> 4],
    [op |-> "ldx", mode |-> "absolute", extra |-> FALSE, length |-> 3, cycles |-> 4],
    [op |-> "lax", mode |-> "absolute", extra |-> FALSE, length |-> 3, cycles |-> 4],
    [op |-> "bcs", mode |-> "none", extra |-> FALSE, length |-> 2, cycles |-> 2],
    [op |-> "lda", mode |-> "indirect_indexed_y", extra |-> TRUE, length |-> 2, cycles |-> 5],
    [op |-> "jam", mode |-> "none", extra |-> FALSE, length |-> 0, cycles |-> 0],
    [op |-> "lax", mode |-> "indirect_indexed_y", extra |-> TRUE, length |-> 2, cycles |-> 5],
    [op |-> "ldy", mode |-> "indexed_zero_page_x", extra |-> FALSE, length |-> 2, cycles |-> 4],
    [op |-> "lda", mode |-> "indexed_zero_page_x", extra |-> FALSE, length |-> 2, cycles |-> 4],
    [op |-> "ldx", mode |-> "indexed_zero_page_y", extra |-> FALSE, length |-> 2, cycles |-> 4],
    [op |-> "lax", mode |-> "indexed_zero_page_y", extra |-> FALSE, length |-> 2, cycles |-> 4],
    [op |-> "clv", mode |-> "none", extra |-> FALSE, length |-> 1, cycles |-> 2],
    [op |-> "lda", mode |-> "indexed_absolute_y", extra |-> TRUE, length |-> 3, cycles |-> 4],
    [op |-> "tsx", mode |-> "none", extra |-> FALSE, length |-> 1, cycles |-> 2],
    [op |-> "las", mode |-> "indexed_absolute_y", extra |-> TRUE, length |-> 3, cycles |-> 4],
    [op |-> "ldy", mode |-> "indexed_absolute_x", extra |-> TRUE, length |-> 3, cycles |-> 4],
    [op |-> "lda", mode |-> "indexed_absolute_x", extra |-> TRUE, length |-> 3, cycles |-> 4],
    [op |-> "ldx", mode |-> "indexed_absolute_y", extra |-> TRUE, length |-> 3, cycles |-> 4],
    [op |-> "lax", mode |-> "indexed_absolute_y", extra |-> TRUE, length |-> 3, cycles |-> 4],
    [op |-> "cpy", mode |-> "immediate", extra |-> FALSE, length |-> 2, cycles |-> 2],
    [op |-> "cmp", mode |-> "indexed_indirect_x", extra |-> FALSE, length |-> 2, cycles |-> 6],
    [op |-> "nop", mode |-> "none", extra |-> FALSE, length |-> 2, cycles |-> 2],
    [op |-> "dcp", mode |-> "indexed_indirect_x", extra |-> FALSE, length |-> 2, cycles |-> 8],
    [op |-> "cpy", mode |-> "zero_page", extra |-> FALSE, length |-> 2, cycles |-> 3],
    [op |-> "cmp", mode |-> "zero_page", extra |-> FALSE, length |-> 2, cycles |-> 3],
    [op |-> "dec", mode |-> "zero_page", extra |-> FALSE, length |-> 2, cycles |-> 5],
    [op |-> "dcp", mode |-> "zero_page", extra |-> FALSE, length |-> 2, cycles |-> 5],
    [op |-> "iny", mode |-> "none", extra |-> FALSE, length |-> 1, cycles |-> 2],
    [op |-> "cmp", mode |-> "immediate", extra |-> FALSE, length |-> 2, cycles |-> 2],
    [op |-> "dex", mode |-> "none", extra |-> FALSE, length |-> 1, cycles |-> 2],
    [op |-> "sbx", mode |-> "immediate", extra |-> FALSE, length |-> 2, cycles |-> 2],
    [op |-> "cpy", mode |-> "absolute", extra |-> FALSE, length |-> 3, cycles |-> 4],
    [op |-> "cmp", mode |-> "absolute", extra |-> FALSE, length |-> 3, cycles |-> 4],
    [op |-> "dec", mode |-> "absolute", extra |-> FALSE, length |-> 3, cycles |-> 6],
    [op |-> "dcp", mode |-> "absolute", extra |-> FALSE, length |-> 3, cycles |-> 6],
    [op |-> "bne", mode |-> "none", extra |-> FALSE, length |-> 2, cycles |-> 2],
    [op |-> "cmp", mode |-> "indirect_indexed_y", extra |-> TRUE, length |-> 2, cycles |-> 5],
    [op |-> "jam", mode |-> "none", extra |-> FALSE, length |-> 0, cycles |-> 0],
    [op |-> "dcp", mode |-> "indirect_indexed_y", extra |-> FALSE, length |-> 2, cycles |-> 8],
    [op |-> "nop", mode |-> "none", extra |-> FALSE, length |-> 2, cycles |-> 4],
    [op |-> "cmp", mode |-> "indexed_zero_page_x", extra |-> FALSE, length |-> 2, cycles |-> 4],
    [op |-> "dec", mode |-> "indexed_zero_page_x", extra |-> FALSE, length |-> 2, cycles |-> 6],
    [op |-> "dcp", mode |-> "indexed_zero_page_x", extra |-> FALSE, length |-> 2, cycles |-> 6],
    [op |-> "cld", mode |-> "none", extra |-> FALSE, length |-> 1, cycles |-> 2],
    [op |-> "cmp", mode |-> "indexed_absolute_y", extra |-> TRUE, length |-> 3, cycles |-> 4],
    [op |-> "nop", mode |-> "none", extra |-> FALSE, length |-> 1, cycles |-> 2],
    [op |-> "dcp", mode |-> "indexed_absolute_y", extra |-> FALSE, length |-> 3, cycles |-> 7],
    [op |-> "nop", mode |-> "indexed_absolute_x", extra |-> TRUE, length |-> 3, cycles |-> 4],
    [op |-> "cmp", mode |-> "indexed_absolute_x", extra |-> TRUE, length |-> 3, cycles |-> 4],
    [op |-> "dec", mode |-> "indexed_absolute_x", extra |-> FALSE, length |-> 3, cycles |-> 7],
    [op |-> "dcp", mode |-> "indexed_absolute_x", extra |-> FALSE, length |-> 3, cycles |-> 7],
    [op |-> "cpx", mode |-> "immediate", extra |-> FALSE, length |-> 2, cycles |-> 2],
    [op |-> "sbc", mode |-> "indexed_indirect_x", extra |-> FALSE, length |-> 2, cycles |-> 6],
    [op |-> "nop", mode |-> "none", extra |-> FALSE, length |-> 2, cycles |-> 2],
    [op |-> "isc", mode |-> "indexed_indirect_x", extra |-> FALSE, length |-> 2, cycles |-> 8],
    [op |-> "cpx", mode |-> "zero_page", extra |-> FALSE, length |-> 2, cycles |-> 3],
    [op |-> "sbc", mode |-> "zero_page", extra |-> FALSE, length |-> 2, cycles |-> 3],
    [op |-> "inc", mode |-> "zero_page", extra |-> FALSE, length |-> 2, cycles |-> 5],
    [op |-> "isc", mode |-> "zero_page", extra |-> FALSE, length |-> 2, cycles |-> 5],
    [op |-> "inx", mode |-> "none", extra |-> FALSE, length |-> 1, cycles |-> 2],
    [op |-> "sbc", mode |-> "immediate", extra |-> FALSE, length |-> 2, cycles |-> 2],
    [op |-> "nop", mode |-> "none", extra |-> FALSE, length |-> 1, cycles |-> 2],
    [op |-> "sbc", mode |-> "immediate", extra |-> FALSE, length |-> 2, cycles |-> 2],
    [op |-> "cpx", mode |-> "absolute", extra |-> FALSE, length |-> 3, cycles |-> 4],
    [op |-> "sbc", mode |-> "absolute", extra |-> FALSE, length |-> 3, cycles |-> 4],
    [op |-> "inc", mode |-> "absolute", extra |-> FALSE, length |-> 3, cycles |-> 6],
    [op |-> "isc", mode |-> "absolute", extra |-> FALSE, length |-> 3, cycles |-> 6],
    [op |-> "beq", mode |-> "none", extra |-> FALSE, length |-> 2, cycles |-> 2],
    [op |-> "sbc", mode |-> "indirect_indexed_y", extra |-> TRUE, length |-> 2, cycles |-> 5],
    [op |-> "jam", mode |-> "none", extra |-> FALSE, length |-> 0, cycles |-> 0],
    [op |-> "isc", mode |-> "indirect_indexed_y", extra |-> FALSE, length |-> 2, cycles |-> 8],
    [op |-> "nop", mode |-> "none", extra |-> FALSE, length |-> 2, cycles |-> 4],
    [op |-> "sbc", mode |-> "indexed_zero_page_x", extra |-> FALSE, length |-> 2, cycles |-> 4],
    [op |-> "inc", mode |-> "indexed_zero_page_x", extra |-> FALSE, length |-> 2, cycles |-> 6],
    [op |-> "isc", mode |-> "indexed_zero_page_x", extra |-> FALSE, length |-> 2, cycles |-> 6],
    [op |-> "sed", mode |-> "none", extra |-> FALSE, length |-> 1, cycles |-> 2],
    [op |-> "sbc", mode |-> "indexed_absolute_y", extra |-> TRUE, length |-> 3, cycles |-> 4],
    [op |-> "nop", mode |-> "none", extra |-> FALSE, length |-> 1, cycles |-> 2],
    [op |-> "isc", mode |-> "indexed_absolute_y", extra |-> FALSE, length |-> 3, cycles |-> 7],
    [op |-> "nop", mode |-> "indexed_absolute_x", extra |-> TRUE, length |-> 3, cycles |-> 4],
    [op |-> "sbc", mode |-> "indexed_absolute_x", extra |-> TRUE, length |-> 3, cycles |-> 4],
    [op |-> "inc", mode |-> "indexed_absolute_x", extra |-> FALSE, length |-> 3, cycles |-> 7],
    [op |-> "isc", mode |-> "indexed_absolute_x", extra |-> FALSE, length |-> 3, cycles |-> 7]
  >>

Operate(e, m, address) ==
  CASE e.op = "adc" -> adc(m, address, e.length, e.cycles)
    [] e.op = "alr" -> alr(m, address, e.length, e.cycles)
    [] e.op = "anc" -> anc(m, address, e.length, e.cycles)
    [] e.op = "and" -> and(m, address, e.length, e.cycles)
    [] e.op = "arr" -> arr(m, address, e.length, e.cycles)
    [] e.op = "asl" -> asl(m, address, e.length, e.cycles)
    [] e.op = "bcc" -> bcc(m, e.length, e.cycles)
    [] e.op = "bcs" -> bcs(m, e.length, e.cycles)
    [] e.op = "beq" -> beq(m, e.length, e.cycles)
    [] e.op = "bit" -> bit(m, address, e.length, e.cycles)
    [] e.op = "bmi" -> bmi(m, e.length, e.cycles)
    [] e.op = "bne" -> bne(m, e.length, e.cycles)
    [] e.op = "bpl" -> bpl(m, e.length, e.cycles)
    [] e.op = "brk" -> brk(m, e.cycles)
    [] e.op = "bvc" -> bvc(m, e.length, e.cycles)
    [] e.op = "bvs" -> bvs(m, e.length, e.cycles)
    [] e.op = "clc" -> clc(m, e.length, e.cycles)
    [] e.op = "cld" -> cld(m, e.length, e.cycles)
    [] e.op = "cli" -> cli(m, e.length, e.cycles)
    [] e.op = "clv" -> clv(m, e.length, e.cycles)
    [] e.op = "cmp" -> cmp(m, address, e.length, e.cycles)
    [] e.op = "cpx" -> cpx(m, address, e.length, e.cycles)
    [] e.op = "cpy" -> cpy(m, address, e.length, e.cycles)
    [] e.op = "dcp" -> dcp(m, address, e.length, e.cycles)
    [] e.op = "dec" -> dec(m, address, e.length, e.cycles)
    [] e.op = "dex" -> dex(m, e.length, e.cycles)
    [] e.op = "dey" -> dey(m, e.length, e.cycles)
    [] e.op = "eor" -> eor(m, address, e.length, e.cycles)
    [] e.op = "inc" -> inc(m, address, e.length, e.cycles)
    [] e.op = "inx" -> inx(m, e.length, e.cycles)
    [] e.op = "iny" -> iny(m, e.length, e.cycles)
    [] e.op = "isc" -> isc(m, address, e.length, e.cycles)
    [] e.op = "jam" -> jam(m)
    [] e.op = "jmp" -> jmp(m, address, e.cycles)
    [] e.op = "jsr" -> jsr(m, address, e.length, e.cycles)
    [] e.op = "las" -> las(m, address, e.length, e.cycles)
    [] e.op = "lax" -> lax(m, address, e.length, e.cycles)
    [] e.op = "lda" -> lda(m, address, e.length, e.cycles)
    [] e.op = "ldx" -> ldx(m, address, e.length, e.cycles)
    [] e.op = "ldy" -> ldy(m, address, e.length, e.cycles)
    [] e.op = "lsr" -> lsr(m, address, e.length, e.cycles)
    [] e.op = "lxa" -> lxa(m, address, e.length, e.cycles)
    [] e.op = "nop" -> nop(m, e.length, e.cycles)
    [] e.op = "ora" -> ora(m, address, e.length, e.cycles)
    [] e.op = "pha" -> pha(m, e.length, e.cycles)
    [] e.op = "php" -> php(m, e.length, e.cycles)
    [] e.op = "pla" -> pla(m, e.length, e.cycles)
    [] e.op = "plp" -> plp(m, e.length, e.cycles)
    [] e.op = "rla" -> rla(m, address, e.length, e.cycles)
    [] e.op = "rol" -> rol(m, address, e.length, e.cycles)
    [] e.op = "ror" -> ror(m, address, e.length, e.cycles)
    [] e.op = "rra" -> rra(m, address, e.length, e.cycles)
    [] e.op = "rti" -> rti(m, e.cycles)
    [] e.op = "rts" -> rts(m, e.cycles)
    [] e.op = "sax" -> sax(m, address, e.length, e.cycles)
    [] e.op = "sbc" -> sbc(m, address, e.length, e.cycles)
    [] e.op = "sbx" -> sbx(m, address, e.length, e.cycles)
    [] e.op = "sec" -> sec(m, e.length, e.cycles)
    [] e.op = "sed" -> sed(m, e.length, e.cycles)
    [] e.op = "sei" -> sei(m, e.length, e.cycles)
    [] e.op = "sha" -> sha(m, address, e.length, e.cycles)
    [] e.op = "shx" -> shx(m, address, e.length, e.cycles)
    [] e.op = "shy" -> shy(m, address, e.length, e.cycles)
    [] e.op = "slo" -> slo(m, address, e.length, e.cycles)
    [] e.op = "sre" -> sre(m, address, e.length, e.cycles)
    [] e.op = "sta" -> sta(m, address, e.length, e.cycles)
    [] e.op = "stx" -> stx(m, address, e.length, e.cycles)
    [] e.op = "sty" -> sty(m, address, e.length, e.cycles)
    [] e.op = "tas" -> tas(m, address, e.length, e.cycles)
    [] e.op = "tax" -> tax(m, e.length, e.cycles)
    [] e.op = "tay" -> tay(m, e.length, e.cycles)
    [] e.op = "tsx" -> tsx(m, e.length, e.cycles)
    [] e.op = "txa" -> txa(m, e.length, e.cycles)
    [] e.op = "txs" -> txs(m, e.length, e.cycles)
    [] e.op = "tya" -> tya(m, e.length, e.cycles)
    [] e.op = "xaa" -> xaa(m, address, e.length, e.cycles)

\* One arm of the match: resolve the operand address, then operate.
Dispatch(m, opcode) ==
  With(OpcodeTable[opcode + 1], LAMBDA e :
  With(Resolve(m, e.mode, e.extra), LAMBDA r :
    Operate(e, r.m, r.addr)))

(***************************************************************************)
(* execute_instruction.  The result record holds the CPU after the call    *)
(* (`m`), the value returned (`ret`) and, as a trace of what the call did, *)
(* whether the NMI and IRQ entry sequences ran, whether an opcode was      *)
(* fetched and dispatched, the opcode, and the CPU as it stood at the      *)
(* fetch (`at_fetch`).                                                     *)
(***************************************************************************)
\* Variant of the NMI check that looks at the level of the line only.
NmiStageLevel(m) == IF m.nmi THEN nmi(m) ELSE m
NmiStage(m) == IF m.nmi /\ ~m.last_nmi THEN nmi(m) ELSE m
LatchStage(m) == [m EXCEPT !.last_nmi = m.nmi]
\* Variant of the IRQ check that ignores the I flag.
IrqStageUngated(m) == IF m.irq THEN irq(m) ELSE m
IrqStage(m) == IF m.irq /\ ~m.irq_disable THEN irq(m) ELSE m

\* Variant of execute_instruction that notes the cycle counter after the
\* interrupt checks instead of before them.
execute_instruction_late_start(m) ==
  IF m.jammed
  THEN [m |-> m, ret |-> 1, nmi_entry |-> FALSE, irq_entry |-> FALSE,
        fetched |-> FALSE, opcode |-> None, at_fetch |-> m]
  ELSE With(NmiStage(m), LAMBDA m1 :
       With(LatchStage(m1), LAMBDA m2 :
       With(IrqStage(m2), LAMBDA m3 :
       With(m3.total_cycles, LAMBDA cycles_at_start :
       With(read_byte(m3, m3.pc), LAMBDA opcode :
       With(Dispatch(opcode.m, opcode.v), LAMBDA m4 :
         [m |-> m4, ret |-> m4.total_cycles - cycles_at_start,
           nmi_entry |-> m1 # m, irq_entry |-> m3 # m2,
           fetched |-> TRUE, opcode |-> opcode.v, at_fetch |-> m3]))))))

execute_instruction(m) ==
  IF m.jammed
  THEN [m |-> m, ret |-> 1, nmi_entry |-> FALSE, irq_entry |-> FALSE,
        fetched |-> FALSE, opcode |-> None, at_fetch |-> m]
  ELSE With(m.total_cycles, LAMBDA cycles_at_start :
       With(NmiStage(m), LAMBDA m1 :
       With(LatchStage(m1), LAMBDA m2 :
       With(IrqStage(m2), LAMBDA m3 :
       With(read_byte(m3, m3.pc), LAMBDA opcode :
       With(Dispatch(opcode.m, opcode.v), LAMBDA m4 :
         [m |-> m4, ret |-> m4.total_cycles - cycles_at_start,
           nmi_entry |-> m1 # m, irq_entry |-> m3 # m2,
           fetched |-> TRUE, opcode |-> opcode.v, at_fetch |-> m3]))))))

(***************************************************************************)
(* Debugger and ExecutionState (debugging.rs).  A debugger is the deque of *)
(* retained snapshots, oldest first, and its limit.  next_instruction is   *)
(* kept as the three bytes it is decoded from.                             *)
(***************************************************************************)
\* Debugger::new: DEFAULT_BACKTRACE_LIMIT is 20.
DebuggerNew(backtrace_limit) ==
  [states |-> <<>>,
   backtrace_limit |-> IF backtrace_limit = None THEN 20 ELSE backtrace_limit]

\* Debugger::record_state with the snapshot to push; pop_front of an empty
\* deque does nothing.
record_state(debugger, state) ==
  [debugger EXCEPT !.states =
     Append(IF Len(@) = debugger.backtrace_limit /\ Len(@) > 0 THEN Tail(@) ELSE @, state)]

\* ExecutionState::new: the snapshot (`state`) and the CPU record, with its
\* bus, after the three bus.read_byte calls (`m`).
ExecutionStateNew(m) ==
  With(read_byte(m, m.pc), LAMBDA opcode :
  With(read_byte(Ovf(opcode.m, m.pc + 1 > 65535), Wrap16(m.pc + 1)), LAMBDA operand1 :
  With(read_byte(Ovf(operand1.m, m.pc + 2 > 65535), Wrap16(m.pc + 2)), LAMBDA operand2 :
    [state |-> [next_instruction |-> <<opcode.v, operand1.v, operand2.v>>,
                a |-> m.a, x |-> m.x, y |-> m.y, p |-> status_register(m), s |-> m.s,
                pc |-> m.pc, cycle_number |-> m.total_cycles],
     m |-> operand2.m])))

current_state(m) == ExecutionStateNew(m)

\* execute_instruction of a CPU with a debugger attached: unless the CPU is
\* jammed, the debugger records current_state before anything else happens.
\* `r` is the result of execute_instruction, `debugger` the debugger after.
ExecuteDebugged(m, debugger) ==
  IF m.jammed THEN [r |-> execute_instruction(m), debugger |-> debugger]
  ELSE With(current_state(m), LAMBDA snapshot :
         [r |-> execute_instruction(snapshot.m),
          debugger |-> record_state(debugger, snapshot.state)])

(***************************************************************************)
(* Bus16::write_word and Bus16::load_code, as the host uses them to place  *)
(* a program and its vectors.                                              *)
(***************************************************************************)
write_word(bus, address, value) ==
  BusWrite(BusWrite(bus, Wrap16(address), BitAnd(value, 255)),
           Wrap16(address + 1), BitAnd(value, 65280) \div 256)

RECURSIVE LoadFrom(_, _, _, _)
LoadFrom(bus, code, base_address, i) ==
  IF i > Len(code) THEN bus
  ELSE LoadFrom(BusWrite(bus, Wrap16(base_address + i - 1), code[i]), code, base_address, i + 1)

load_code(bus, code, base_address, reset_vector) ==
  With(LoadFrom(bus, code, base_address, 1), LAMBDA loaded :
    IF reset_vector # None THEN write_word(loaded, RESET_VECTOR, reset_vector) ELSE loaded)

(***************************************************************************)
(* Test programs for the CPU-only harness (FlatMemory).  Every image has   *)
(* its entry point at $0200 (512), the NMI handler at $0300 (768) and the  *)
(* IRQ/BRK handler at $0310 (784).                                         *)
(***************************************************************************)
Layout == [main |-> 512, nmi |-> 768, irq |-> 784]

ScriptedPrograms ==
  << \* CLI; NOP; SEI; NOP; JMP $0200 -- handlers: RTI / RTI
     [main |-> <<88, 234, 120, 234, 76, 0, 2>>, nmi |-> <<64>>, irq |-> <<64>>],
     \* CLI; PHP; SEI; PLP; JAM -- handlers: NOP; RTI / RTI
     [main |-> <<88, 8, 120, 40, 2>>, nmi |-> <<234, 64>>, irq |-> <<64>>],
     \* BRK; (pad); CLI; JAM($12) -- handlers: RTI / NOP; RTI
     [main |-> <<0, 234, 88, 18>>, nmi |-> <<64>>, irq |-> <<234, 64>>],
     \* CLI; NOP; JMP $0201 -- handlers: JAM($02) / JAM($F2)
     [main |-> <<88, 234, 76, 1, 2>>, nmi |-> <<2>>, irq |-> <<242>>] >>

\* One image per opcode: the opcode with operand bytes $10 $03 at the entry
\* point, followed by CLI; handlers: RTI / RTI.
OpcodePrograms ==
  [op \in 1..256 |-> [main |-> <<op - 1, 16, 3, 88>>, nmi |-> <<64>>, irq |-> <<64>>]]

Programs == ScriptedPrograms \o OpcodePrograms

ProgramImage(p) ==
  With(load_code(FlatMemoryNew, p.main, Layout.main, Layout.main), LAMBDA b0 :
  With(load_code(b0, p.nmi, Layout.nmi, None), LAMBDA b1 :
  With(load_code(b1, p.irq, Layout.irq, None), LAMBDA b2 :
    write_word(write_word(b2, NMI_VECTOR, Layout.nmi), IRQ_VECTOR, Layout.irq))))

(***************************************************************************)
(* State.  `cpu` is the CPU record (with its bus), `ppu` a PPU driven      *)
(* directly through its public interface.  `call` describes the last host  *)
(* operation: its kind and a trace of what it did.  `hist` accumulates     *)
(* observations over the whole run.                                        *)
(***************************************************************************)
VARIABLES cpu, call, hist, ppu

vars == <<cpu, call, hist, ppu>>

\* What a call of execute_instruction leaves in `call`: the returned value,
\* which stages ran, the opcode, and the CPU as it stood at the opcode fetch
\* (registers and the three bytes above the stack pointer).
Snapshot(m) ==
  [pc |-> m.pc, s |-> m.s, irq_disable |-> m.irq_disable, total_cycles |-> m.total_cycles,
   above |-> <<BusReadValue(m.bus, STACK_BASE + Wrap8(m.s + 1)),
               BusReadValue(m.bus, STACK_BASE + Wrap8(m.s + 2)),
               BusReadValue(m.bus, STACK_BASE + Wrap8(m.s + 3))>>]

ExecuteTrace(r) ==
  [kind |-> "execute", ret |-> r.ret, nmi_entry |-> r.nmi_entry, irq_entry |-> r.irq_entry,
   fetched |-> r.fetched, opcode |-> r.opcode, at_fetch |-> Snapshot(r.at_fetch)]

(***************************************************************************)
(* Spec: the CPU driven by a host over FlatMemory.  The host resets the    *)
(* CPU, steps it with execute_instruction and drives the public nmi and    *)
(* irq lines between steps.                                                *)
(*   hist.sampled      the nmi line as the last instruction fetch saw it   *)
(*   hist.nmi_entries  NMI entry sequences performed so far                *)
(*   hist.irq_entries  IRQ entry sequences performed so far                *)
(***************************************************************************)
MaxCycles == 30

Init ==
  \E i \in 1..Len(Programs) :
    /\ cpu = CPUNew(ProgramImage(Programs[i]))
    /\ call = [kind |-> "new"]
    /\ hist = [sampled |-> FALSE, nmi_entries |-> 0, irq_entries |-> 0]
    /\ ppu = PPUNew

Reset ==
  /\ cpu.total_cycles < MaxCycles
  /\ cpu' = reset(cpu)
  /\ call' = [kind |-> "reset", repeated |-> call.kind = "reset"]
  /\ UNCHANGED <<hist, ppu>>

ExecuteInstruction ==
  /\ cpu.total_cycles < MaxCycles
  /\ With(execute_instruction(cpu), LAMBDA r :
        /\ cpu' = r.m
        /\ call' = ExecuteTrace(r)
        /\ hist' = [hist EXCEPT
                      !.sampled = IF cpu.jammed THEN @ ELSE cpu.nmi,
                      !.nmi_entries = @ + B2N(r.nmi_entry),
                      !.irq_entries = @ + B2N(r.irq_entry)])
  /\ UNCHANGED ppu

SetNmi ==
  /\ cpu.total_cycles < MaxCycles
  /\ cpu' = [cpu EXCEPT !.nmi = ~@]
  /\ call' = [kind |-> "set_nmi"]
  /\ UNCHANGED <<hist, ppu>>

SetIrq ==
  /\ cpu.total_cycles < MaxCycles
  /\ cpu' = [cpu EXCEPT !.irq = ~@]
  /\ call' = [kind |-> "set_irq"]
  /\ UNCHANGED <<hist, ppu>>

Next == Reset \/ ExecuteInstruction \/ SetNmi \/ SetIrq

Spec == Init /\ [][Next]_vars

(***************************************************************************)
(* Properties of the CPU under Spec.                                       *)
(***************************************************************************)
JamOpcodes == {2, 18, 34, 50, 66, 82, 98, 114, 146, 178, 210, 242}

\* The status byte an interrupt entry pushes for CPU m: B clear, bit 5 set.
PushedP(m) ==
  B2N(m.carry) + 2 * B2N(m.zero) + 4 * B2N(m.irq_disable) + 8 * B2N(m.decimal_mode)
    + 32 + 64 * B2N(m.overflow) + 128 * B2N(m.negative)

VectorWord(bus, vector) ==
  BusReadValue(bus, vector) + 256 * BusReadValue(bus, vector + 1)

\* The entry sequence as seen at the opcode fetch `snap` of a call that
\* started in CPU state `pre`: PC and P pushed, I set, PC loaded from the
\* vector, seven cycles charged.
EntryEffects(pre, snap, vector) ==
  /\ snap.pc = VectorWord(pre.bus, vector)
  /\ snap.irq_disable
  /\ snap.s = Wrap8(pre.s - 3)
  /\ snap.above = <<PushedP(pre), pre.pc % 256, pre.pc \div 256>>
  /\ snap.total_cycles = pre.total_cycles + 7

\* C1 (as stated): a call on a non-jammed CPU either executes one instruction
\* or services one interrupt, never an interrupt entry and an instruction in
\* the same call.
C1_EntryOrInstruction ==
  (call.kind = "execute" /\ call.fetched) => ~(call.nmi_entry \/ call.irq_entry)

\* C1 (amended): every call on a non-jammed CPU fetches and executes exactly
\* one instruction; that instruction is preceded, in the same call, by at most
\* one interrupt entry (NMI or IRQ, never both); the value returned is the 7
\* cycles of the entry, if there was one, plus the cycles of the instruction.
C1_OneInstructionAfterAtMostOneEntry ==
  [][(call'.kind = "execute" /\ ~cpu.jammed) =>
       LET entry == 7 * B2N(call'.nmi_entry \/ call'.irq_entry)
           base == OpcodeTable[call'.opcode + 1].cycles
       IN /\ call'.fetched
          /\ ~(call'.nmi_entry /\ call'.irq_entry)
          /\ call'.at_fetch.total_cycles = cpu.total_cycles + entry
          /\ call'.ret = entry + (cpu'.total_cycles - call'.at_fetch.total_cycles)
          /\ call'.ret - entry \in base..(base + 2)]_vars

\* An IRQ entry and an instruction of at least two cycles in one call.
C1_Witness ==
  call.kind = "execute" /\ call.irq_entry /\ call.fetched /\ call.ret >= 9

\* C2: the NMI entry sequence runs in a call on a non-jammed CPU exactly when
\* the nmi line is high and was low at the previous fetch, whatever the I
\* flag; the fetch then records the line, so a line held high does not enter
\* again until a fetch has seen it low.
C2_NmiEdgeTriggered ==
  [][(call'.kind = "execute" /\ ~cpu.jammed) =>
       /\ call'.nmi_entry <=> (cpu.nmi /\ ~hist.sampled)
       /\ hist'.sampled = cpu.nmi
       /\ cpu'.last_nmi = cpu.nmi
       /\ hist'.nmi_entries = hist.nmi_entries + B2N(cpu.nmi /\ ~hist.sampled)
       /\ call'.nmi_entry => EntryEffects(cpu, call'.at_fetch, NMI_VECTOR)]_vars

\* A second NMI entry: the line went low and high again between two fetches.
C2_Witness ==
  call.kind = "execute" /\ call.nmi_entry /\ hist.nmi_entries = 2

\* C3: at the IRQ check of a call on a non-jammed CPU the IRQ entry sequence
\* runs exactly when irq is asserted and I is clear (I as the check sees it:
\* an NMI entry in the same call has set it); and I goes from set to clear
\* only by executing CLI, PLP or RTI.
C3_IrqLevelGatedByI ==
  [][/\ (call'.kind = "execute" /\ ~cpu.jammed) =>
          /\ call'.irq_entry <=> (cpu.irq /\ ~(cpu.irq_disable \/ call'.nmi_entry))
          /\ call'.irq_entry => EntryEffects(cpu, call'.at_fetch, IRQ_VECTOR)
     /\ (cpu.irq_disable /\ ~cpu'.irq_disable) =>
          /\ call'.kind = "execute"
          /\ call'.at_fetch.irq_disable
          /\ call'.opcode \in {88, 40, 64}]_vars

\* A second IRQ entry with the line held: the handler's RTI cleared I again.
C3_Witness ==
  call.kind = "execute" /\ call.irq_entry /\ hist.irq_entries = 2 /\ call.opcode = 64

\* C4: executing a JAM opcode sets jammed, nothing else does, and nothing
\* clears it; every call on a jammed CPU returns 1 and leaves the CPU and its
\* bus exactly as they were, whatever the nmi and irq lines are.
C4_JamSticky ==
  [][/\ (call'.kind = "execute" /\ ~cpu.jammed) =>
          (cpu'.jammed <=> call'.opcode \in JamOpcodes)
     /\ cpu.jammed => cpu'.jammed
     /\ (call'.kind = "execute" /\ cpu.jammed) =>
          (call'.ret = 1 /\ ~call'.fetched /\ cpu' = cpu)]_vars

\* A call on a jammed CPU made with an NMI edge pending and IRQ asserted and
\* enabled.
C4_Witness ==
  /\ call.kind = "execute" /\ ~call.fetched
  /\ cpu.jammed /\ cpu.nmi /\ ~cpu.last_nmi /\ cpu.irq /\ ~cpu.irq_disable

\* C5: after reset is called on a jammed CPU, the next execute_instruction
\* call fetches and executes an instruction instead of returning the jammed
\* no-op.
C5_ResetRecoversJam ==
  [][(cpu.jammed /\ call.kind = "reset" /\ call'.kind = "execute") =>
       (call'.fetched /\ ~cpu'.jammed)]_vars

\* A jammed CPU that has just been reset.
C5_Witness ==
  call.kind = "reset" /\ cpu.jammed

\* C6 (as stated): a second reset in a row leaves every field of the CPU,
\* the cycle counter included, as the first reset left it.
C6_ResetTwiceSameState ==
  [][(call.kind = "reset" /\ call'.kind = "reset") => cpu' = cpu]_vars

\* C6 (amended): from every CPU state reset sets PC to the word at $FFFC, S
\* to $FD and I to 1, adds 7 to total_cycles and changes nothing else; a
\* second reset in a row changes total_cycles (by another 7) and nothing else.
C6_ResetIdempotentExceptCycles ==
  [][call'.kind = "reset" =>
       /\ cpu'.pc = VectorWord(cpu.bus, RESET_VECTOR)
       /\ cpu'.s = 253
       /\ cpu'.irq_disable
       /\ cpu'.total_cycles = cpu.total_cycles + 7
       /\ cpu' = [cpu EXCEPT !.pc = cpu'.pc, !.s = 253, !.irq_disable = TRUE,
                             !.total_cycles = @ + 7]
       /\ call.kind = "reset" => cpu' = [cpu EXCEPT !.total_cycles = @ + 7]]_vars

\* Two resets in a row after the program has run for a while.
C6_Witness ==
  call.kind = "reset" /\ call.repeated /\ cpu.total_cycles > 14

\* C7 (as stated): in every CPU state, jammed included, the value returned
\* equals total_cycles after the call minus total_cycles before it.
C7_ReturnIsDelta ==
  [][call'.kind = "execute" => call'.ret = cpu'.total_cycles - cpu.total_cycles]_vars

\* C7 (amended): total_cycles never decreases; a call on a non-jammed CPU
\* returns total_cycles after the call minus total_cycles before it; a call
\* on a jammed CPU returns 1 and leaves total_cycles as it was.
C7_ReturnIsDeltaUnlessJammed ==
  [][/\ cpu'.total_cycles >= cpu.total_cycles
     /\ (call'.kind = "execute" /\ ~cpu.jammed) =>
          call'.ret = cpu'.total_cycles - cpu.total_cycles
     /\ (call'.kind = "execute" /\ cpu.jammed) =>
          (call'.ret = 1 /\ cpu'.total_cycles = cpu.total_cycles)]_vars

\* A call that returned 13: the 7 cycles of an NMI entry and the 6 of the RTI
\* at the head of the handler.
C7_Witness ==
  call.kind = "execute" /\ call.nmi_entry /\ call.opcode = 64 /\ call.ret = 13

(***************************************************************************)
(* ROM files (rom.rs) and Cartridge::load (cartridge.rs).  A file is its   *)
(* length and its first sixteen bytes (fewer if it is shorter); the loader *)
(* looks at nothing else before it slices the rest by length.  A loaded    *)
(* RomFile is its header and the lengths of its parts.                     *)
(***************************************************************************)
\* impl INesHeader: the accessors of the sixteen header bytes.
INesHeader(bytes) ==
  [prg_rom_size |-> bytes[5] * 16384,
   chr_rom_size |-> bytes[6] * 8192,
   mirroring |-> IF TestBit(bytes[7], 3) THEN "FourScreen"
                 ELSE IF TestBit(bytes[7], 0) THEN "Vertical" ELSE "Horizontal",
   has_persistent_memory |-> TestBit(bytes[7], 1),
   has_trainer |-> TestBit(bytes[7], 2),
   mapper_number |-> BitOr(BitAnd(bytes[8], 240), BitAnd(bytes[7], 240) \div 16),
   console_type |-> bytes[8] % 4,
   is_ines_2_header |-> BitAnd(bytes[8], 12) = 8]

\* RomFile::load.  consume_bytes(n) succeeds when cursor + n bytes exist.
RomFileLoad(file) ==
  IF file.len < 16 THEN [ok |-> FALSE, error |-> "MalformedRomFile"]
  ELSE IF SubSeq(file.head, 1, 4) # <<78, 69, 83, 26>>
       THEN [ok |-> FALSE, error |-> "UnsupportedFormat"]
  ELSE With(INesHeader(file.head), LAMBDA header :
         IF header.is_ines_2_header THEN [ok |-> FALSE, error |-> "UnsupportedFormat"]
         ELSE IF header.mapper_number # 0 THEN [ok |-> FALSE, error |-> "UnsupportedMapper"]
         ELSE IF header.console_type # 0 THEN [ok |-> FALSE, error |-> "UnsupportedConsole"]
         ELSE With(IF header.has_trainer THEN 16 + 512 ELSE 16, LAMBDA cursor :
                IF cursor > file.len THEN [ok |-> FALSE, error |-> "MalformedRomFile"]
                ELSE IF cursor + header.prg_rom_size > file.len
                     THEN [ok |-> FALSE, error |-> "MalformedRomFile"]
                ELSE IF cursor + header.prg_rom_size + header.chr_rom_size > file.len
                     THEN [ok |-> FALSE, error |-> "MalformedRomFile"]
                ELSE [ok |-> TRUE, header |-> header,
                      prg_rom |-> header.prg_rom_size, chr_rom |-> header.chr_rom_size]))

\* Cartridge::new with NROM::new.  The result is the cartridge, or records
\* that a panic!() arm or the unwrap() of Rom::from_slice was reached.
CartridgeNew(rom_file) ==
  IF rom_file.header.mapper_number # 0 THEN [panic |-> TRUE]
  ELSE IF rom_file.prg_rom \notin {16384, 32768} THEN [panic |-> TRUE]
  ELSE IF rom_file.chr_rom # 8192 THEN [panic |-> TRUE]
  ELSE NROMNew(<<>>, rom_file.prg_rom, rom_file.header.has_persistent_memory,
               rom_file.header.mirroring)

\* Cartridge::load: Err(error), Ok(cartridge), or a panic.
CartridgeLoad(file) ==
  With(RomFileLoad(file), LAMBDA rom_file :
    IF ~rom_file.ok THEN [outcome |-> "Err", error |-> rom_file.error]
    ELSE With(CartridgeNew(rom_file), LAMBDA cartridge :
           IF cartridge.panic THEN [outcome |-> "panic"]
           ELSE [outcome |-> "Ok", cartridge |-> cartridge]))

(***************************************************************************)
(* NES: the console of nes.rs.  The record of the console is the CPU       *)
(* record whose bus is the CpuBus (RAM, PPU, cartridge).                   *)
(***************************************************************************)
NESNew == CPUNew(NesBusNew(EmptyCartridgeSlot))

insert_cartridge(m, cartridge) == reset([m EXCEPT !.bus.cartridge = cartridge])

\* The number of dots, among the next `cycles` dots, at which the PPU's NMI
\* latch goes from clear to set.
RECURSIVE EdgesRaised(_, _)
EdgesRaised(p, cycles) ==
  IF cycles = 0 THEN 0
  ELSE IF cycles = 1 THEN B2N(~p.nmi_interrupt /\ cycle(p).nmi_interrupt)
  ELSE With(PpuTick(p, cycles \div 2), LAMBDA half :
         EdgesRaised(p, cycles \div 2)
            + (IF half.x < SCANLINE_LENGTH
               THEN EdgesRaised(half, cycles - cycles \div 2) ELSE 0))

\* NES::tick: one instruction, three dots per cycle returned, then the NMI
\* entry if the PPU latched an interrupt.  `m` is the console afterwards;
\* the other fields record what the tick did.
NesTick(m) ==
  With(execute_instruction(m), LAMBDA executed :
  With(executed.ret, LAMBDA cpu_cycles :
  With([executed.m EXCEPT !.bus.ppu = PpuTick(@, cpu_cycles * 3)], LAMBDA dotted :
  With(take_interrupt_value(dotted.bus.ppu), LAMBDA nmi_interrupt :
  With([dotted EXCEPT !.bus.ppu = take_interrupt(@)], LAMBDA taken :
    [m |-> IF nmi_interrupt THEN nmi(taken) ELSE taken,
      cpu_cycles |-> cpu_cycles, nmi_interrupt |-> nmi_interrupt,
      raised |-> EdgesRaised(executed.m.bus.ppu, cpu_cycles * 3),
      executed |-> executed])))))

(***************************************************************************)
(* Cartridge images for the console: 16 KiB of PRG-ROM (mirrored over      *)
(* $8000-$FFFF), entry point $8000, interrupt handler at $9000.            *)
(***************************************************************************)
\* Sixteen SLO ($10,X), eight cycles each.
Slow16 == [i \in 1..32 |-> IF i % 2 = 1 THEN 3 ELSE 16]

NesPrograms ==
  << \* LDA #$80; STA $2000; loop: 16 x SLO; JMP loop -- handler: RTI
     [main |-> <<169, 128, 141, 0, 32>> \o Slow16 \o <<76, 5, 128>>, handler |-> <<64>>],
     \* loop: 16 x SLO; JMP loop (NMI never enabled) -- handler: RTI
     [main |-> Slow16 \o <<76, 0, 128>>, handler |-> <<64>>],
     \* LDA #$80; STA $2000; loop: 16 x SLO; JMP loop -- handler: BIT $2002; RTI
     [main |-> <<169, 128, 141, 0, 32>> \o Slow16 \o <<76, 5, 128>>,
      handler |-> <<44, 2, 32, 64>>] >>

NesCartridge(p) ==
  LET \* vectors at $FFFA: NMI $9000, RESET $8000, IRQ $9000
      vectors == <<0, 144, 0, 128, 0, 144>>
      prg_rom == [k \in (0..(Len(p.main) - 1)) \cup (4096..(4095 + Len(p.handler)))
                          \cup (16378..16383) |->
                    IF k < 4096 THEN p.main[k + 1]
                    ELSE IF k < 16378 THEN p.handler[k - 4095]
                    ELSE vectors[k - 16377]]
  IN NROMNew(prg_rom, 16384, FALSE, "Horizontal")

(***************************************************************************)
(* SpecNES: a console is built, a cartridge is inserted and the console is *)
(* ticked.                                                                 *)
(*   hist.inserted         a cartridge has been inserted                   *)
(*   hist.cycles_at_reset  cpu.total_cycles when insert_cartridge returned *)
(*   hist.dots             PPU dots run since then                         *)
(*   hist.edges            NMI edges the PPU has raised                    *)
(*   hist.services         NMI entry sequences the CPU has performed       *)
(***************************************************************************)
NesMaxCycles == 58000

InitNES ==
  /\ cpu = NESNew
  /\ call = [kind |-> "new"]
  /\ hist = [inserted |-> FALSE, cycles_at_reset |-> 0, dots |-> 0, edges |-> 0,
             services |-> 0]
  /\ ppu = PPUNew

InsertCartridge ==
  /\ ~hist.inserted
  /\ \E i \in 1..Len(NesPrograms) :
       cpu' = insert_cartridge(cpu, NesCartridge(NesPrograms[i]))
  /\ call' = [kind |-> "insert_cartridge"]
  /\ hist' = [hist EXCEPT !.inserted = TRUE, !.cycles_at_reset = cpu'.total_cycles]
  /\ UNCHANGED ppu

Tick ==
  /\ hist.inserted
  /\ cpu.total_cycles < NesMaxCycles
  /\ With(NesTick(cpu), LAMBDA t :
        /\ cpu' = t.m
        /\ call' = [kind |-> "tick", cpu_cycles |-> t.cpu_cycles,
                    nmi_interrupt |-> t.nmi_interrupt, raised |-> t.raised,
                    nmi_entry |-> t.executed.nmi_entry, irq_entry |-> t.executed.irq_entry,
                    opcode |-> t.executed.opcode, fetch_pc |-> t.executed.at_fetch.pc]
        /\ hist' = [hist EXCEPT !.dots = @ + t.cpu_cycles * 3,
                                !.edges = @ + t.raised,
                                !.services = @ + B2N(t.m.total_cycles
                                                       # t.executed.m.total_cycles)])
  /\ UNCHANGED ppu

NextNES == InsertCartridge \/ Tick

SpecNES == InitNES /\ [][NextNES]_vars

\* The registers and lines of a CPU record, without its bus and counter.
Registers(m) ==
  [a |-> m.a, x |-> m.x, y |-> m.y, carry |-> m.carry, zero |-> m.zero,
   decimal_mode |-> m.decimal_mode, overflow |-> m.overflow, negative |-> m.negative,
   nmi |-> m.nmi, last_nmi |-> m.last_nmi, irq |-> m.irq, jammed |-> m.jammed]

\* C8: after insert_cartridge and any number of ticks, the PPU has run three
\* dots for every CPU cycle counted in total_cycles since the reset.
C8_ThreeDotsPerCycle ==
  hist.inserted => hist.dots = 3 * (cpu.total_cycles - hist.cycles_at_reset)

\* The console after its first NMI has been serviced.
C8_Witness ==
  hist.inserted /\ hist.services = 1

\* C9: the PPU's latch is clear between ticks; a tick takes an interrupt from
\* the PPU exactly when the PPU raised an edge during the dots of that tick;
\* the CPU then performs the NMI entry on top of the state the instruction of
\* that tick left (registers, RAM below the three pushed bytes and cartridge
\* as the instruction left them), so the next tick's instruction is fetched
\* from the handler; a tick in which no edge was raised performs no entry.
C9_NmiDeliveredOnceBeforeNextInstruction ==
  [][call'.kind = "tick" =>
       LET after == execute_instruction(cpu).m
       IN /\ ~cpu.bus.ppu.nmi_interrupt /\ ~cpu'.bus.ppu.nmi_interrupt
          /\ call'.raised \in {0, 1}
          /\ call'.nmi_interrupt <=> (call'.raised = 1)
          /\ hist'.services = hist'.edges
          /\ ~call'.nmi_entry /\ ~call'.irq_entry
          /\ ~cpu.jammed => call'.fetch_pc = cpu.pc
          /\ Registers(cpu') = Registers(after)
          /\ cpu'.bus.cartridge = after.bus.cartridge
          /\ IF call'.nmi_interrupt
             THEN /\ EntryEffects(after, Snapshot(cpu'), NMI_VECTOR)
                  /\ \A k \in DOMAIN cpu'.bus.ram \cup DOMAIN after.bus.ram :
                       k \notin {STACK_BASE + Wrap8(after.s - j) : j \in 0..2} =>
                         SparseGet(cpu'.bus.ram, k) = SparseGet(after.bus.ram, k)
             ELSE /\ Snapshot(cpu') = Snapshot(after)
                  /\ cpu'.bus.ram = after.bus.ram]_vars

\* The tick after an NMI was taken: it executed the RTI at the head of the
\* handler and took nothing from the PPU.
C9_Witness ==
  /\ call.kind = "tick" /\ hist.services = 1 /\ hist.edges = 1
  /\ ~call.nmi_interrupt /\ call.opcode = 64 /\ call.fetch_pc = 36864

(***************************************************************************)
(* SpecPPU: a PPU driven through its public interface: dots, PPUCTRL       *)
(* writes, PPUSTATUS reads and take_interrupt, in any order.               *)
(*   hist.takes      take_interrupt calls that returned true since y last  *)
(*                   wrapped to 0                                          *)
(*   hist.rewritten  PPUCTRL was written since y last became 241           *)
(***************************************************************************)
TickSizes == {93, 341}

InitPPU ==
  /\ ppu = PPUNew
  /\ cpu = CPUNew(FlatMemoryNew)
  /\ call = [kind |-> "new"]
  /\ hist = [takes |-> 0, rewritten |-> FALSE]

PpuDots ==
  /\ \E n \in TickSizes :
       /\ ppu' = PpuTick(ppu, n)
       /\ call' = [kind |-> "dots", n |-> n]
  /\ hist' = IF ppu'.y < ppu.y THEN [takes |-> 0, rewritten |-> FALSE]
             ELSE IF ppu'.y = NMI_SCANLINE /\ ppu.y # NMI_SCANLINE
                  THEN [hist EXCEPT !.rewritten = FALSE]
             ELSE hist
  /\ UNCHANGED cpu

PpuWriteCtrl ==
  /\ \E value \in {0, 128} :
       /\ ppu' = write_ppu_ctrl(ppu, value)
       /\ call' = [kind |-> "write_ppu_ctrl", value |-> value]
  /\ hist' = [hist EXCEPT !.rewritten = @ \/ ppu.y >= NMI_SCANLINE]
  /\ UNCHANGED cpu

PpuReadStatus ==
  /\ ppu' = read_ppu_status(ppu)
  /\ call' = [kind |-> "read_ppu_status", value |-> peek_ppu_status(ppu)]
  /\ UNCHANGED <<cpu, hist>>

PpuTakeInterrupt ==
  /\ ppu' = take_interrupt(ppu)
  /\ call' = [kind |-> "take_interrupt", value |-> take_interrupt_value(ppu)]
  /\ hist' = [hist EXCEPT !.takes = @ + B2N(take_interrupt_value(ppu))]
  /\ UNCHANGED cpu

NextPPU == PpuDots \/ PpuWriteCtrl \/ PpuReadStatus \/ PpuTakeInterrupt

SpecPPU == InitPPU /\ [][NextPPU]_vars

\* C10: between two wraps of y to 0 take_interrupt returns true at most once;
\* the latch goes from clear to set only in a run of dots during which y
\* becomes 241, and then exactly when nmi_enabled is set; PPUCTRL and
\* PPUSTATUS accesses never set it.
C10_NmiEdgeOncePerVBlank ==
  [][/\ hist'.takes <= 1
     /\ (~ppu.nmi_interrupt /\ ppu'.nmi_interrupt) =>
          (call'.kind = "dots" /\ ppu.y = NMI_SCANLINE - 1 /\ ppu'.y = NMI_SCANLINE
             /\ TestBit(ppu.ppu_ctrl, 7))
     /\ (call'.kind = "dots" /\ ppu.y = NMI_SCANLINE - 1 /\ ppu'.y = NMI_SCANLINE) =>
          (ppu'.nmi_interrupt <=> (ppu.nmi_interrupt \/ TestBit(ppu.ppu_ctrl, 7)))
     /\ call'.kind = "take_interrupt" =>
          (call'.value = ppu.nmi_interrupt /\ ~ppu'.nmi_interrupt)]_vars

\* A take_interrupt that returned false in a VBlank whose edge was already
\* taken, after PPUCTRL was rewritten with nmi_enabled set.
C10_Witness ==
  /\ call.kind = "take_interrupt" /\ ~call.value
  /\ hist.takes = 1 /\ hist.rewritten /\ TestBit(ppu.ppu_ctrl, 7) /\ ppu.y >= NMI_SCANLINE

(***************************************************************************)
(* SpecStep family: a CPU over FlatMemory placed in a chosen state (the    *)
(* registers and flags are public fields) and stepped with                 *)
(* execute_instruction.  Each specification of the family has its own      *)
(* initial states and shares the action Step.                              *)
(*   hist.steps  execute_instruction calls made so far                     *)
(*   hist.limit  calls the host makes in this run                          *)
(*   hist.start  registers and status byte of the initial state            *)
(***************************************************************************)
\* The CPU with registers pc, a, x, y, s, the six flags taken from the
\* status byte p, and the given bus.
Machine(pc, a, x, y, s, p, bus) ==
  [decode_p(CPUNew(bus), p) EXCEPT !.pc = pc, !.a = a, !.x = x, !.y = y, !.s = s]

\* Status bytes with bits 4 and 5 clear: one per combination of the flags.
FlagBytes == {p \in 0..255 : ~TestBit(p, 4) /\ ~TestBit(p, 5)}

StartOf(m) ==
  [pc |-> m.pc, a |-> m.a, x |-> m.x, y |-> m.y, s |-> m.s, p |-> PushedP(m) - 32]

StepInit(m, limit) ==
  /\ cpu = m
  /\ call = [kind |-> "new"]
  /\ hist = [steps |-> 0, limit |-> limit, start |-> StartOf(m)]
  /\ ppu = PPUNew

Step ==
  /\ hist.steps < hist.limit
  /\ With(execute_instruction(cpu), LAMBDA r :
        /\ cpu' = r.m
        /\ call' = ExecuteTrace(r)
        /\ hist' = [hist EXCEPT !.steps = @ + 1])
  /\ UNCHANGED ppu

NextStep == Step

(***************************************************************************)
(* SpecPush: PHP, BRK or NOP at $0200, with or without the nmi and irq     *)
(* lines raised, for every combination of flags and a stack pointer at     *)
(* either end of the page.                                                 *)
(***************************************************************************)
PushStackPointers == {0, 1, 2, 128, 255}

InitPush ==
  \E opcode \in {8, 0, 234}, p \in FlagBytes, s \in PushStackPointers,
     nmi_line \in BOOLEAN, irq_line \in BOOLEAN :
    StepInit([Machine(512, 0, 0, 0, s, p, load_code(FlatMemoryNew, <<opcode>>, 512, None))
                EXCEPT !.nmi = nmi_line, !.irq = irq_line], 1)

SpecPush == InitPush /\ [][NextStep]_vars

\* C11: every status byte pushed has bit 5 set; PHP and BRK push it with
\* bit 4 set, the NMI and IRQ entries with bit 4 clear; the other bits are
\* N, V, D, I, Z, C as they stood when the byte was pushed (an entry pushes
\* the flags of the interrupted program; a PHP or BRK fetched after an entry
\* in the same call pushes them with I as the entry set it).
C11_PushedStatusByte ==
  [][call'.kind = "execute" =>
       LET at_fetch == [cpu EXCEPT !.irq_disable = call'.at_fetch.irq_disable]
       IN /\ (call'.nmi_entry \/ call'.irq_entry) =>
               call'.at_fetch.above[1] = PushedP(cpu)
          /\ call'.opcode = 8 =>
               BusReadValue(cpu'.bus, STACK_BASE + call'.at_fetch.s) = PushedP(at_fetch) + 16
          /\ call'.opcode = 0 =>
               BusReadValue(cpu'.bus, STACK_BASE + Wrap8(call'.at_fetch.s - 2))
                 = PushedP(at_fetch) + 16]_vars

\* A BRK fetched right after an IRQ entry that wrapped the stack pointer,
\* with N and C set.
C11_Witness ==
  /\ call.kind = "execute" /\ call.irq_entry /\ call.opcode = 0
  /\ call.at_fetch.s = 253 /\ cpu.negative /\ cpu.carry

(***************************************************************************)
(* SpecNZ: every opcode that writes A, X or Y, at $0200 with operand bytes *)
(* $10 $03, over boundary values of the registers, the carry and the       *)
(* operand value (placed where the addressing mode finds it; for PLA, on   *)
(* the stack).                                                             *)
(***************************************************************************)
WritesA(e) ==
  \/ e.op \in {"lda", "pla", "txa", "tya", "adc", "sbc", "and", "ora", "eor", "lax", "lxa",
               "xaa", "alr", "arr", "anc", "las", "slo", "rla", "sre", "rra", "isc"}
  \/ (e.op \in {"asl", "lsr", "rol", "ror"} /\ e.mode = "accumulator")
WritesX(e) == e.op \in {"ldx", "tax", "tsx", "inx", "dex", "lax", "lxa", "las", "sbx"}
WritesY(e) == e.op \in {"ldy", "tay", "iny", "dey"}

RegisterWriters ==
  {o \in 0..255 : WritesA(OpcodeTable[o + 1]) \/ WritesX(OpcodeTable[o + 1])
                    \/ WritesY(OpcodeTable[o + 1])}

\* The bus with `code` at $0200 and `value` where the instruction at $0200
\* of machine `m` will read its operand.
WithOperand(m, value) ==
  With(OpcodeTable[BusReadValue(m.bus, m.pc) + 1], LAMBDA e :
  With(IF e.op = "pla" THEN STACK_BASE + Wrap8(m.s + 1) ELSE Resolve(m, e.mode, FALSE).addr,
       LAMBDA address :
    IF address = None THEN m ELSE write_byte(m, address, value)))

NZValues == {0, 1, 128, 255}

InitNZ ==
  \E opcode \in RegisterWriters, a \in {0, 1, 255}, x \in {0, 1, 255}, y \in {0, 255},
     s \in {0, 253}, carry \in BOOLEAN, value \in NZValues :
    StepInit(WithOperand(Machine(512, a, x, y, s, B2N(carry),
                                 load_code(FlatMemoryNew, <<opcode, 16, 3>>, 512, None)),
                         value), 1)

SpecNZ == InitNZ /\ [][NextStep]_vars

NZOf(m, value) == m.zero = (value = 0) /\ m.negative = TestBit(value, 7)

\* C12: after every instruction that writes A, X or Y, official or illegal,
\* Z is set iff the value written is 0 and N iff its bit 7 is 1.
C12_NZFollowWrittenValue ==
  [][call'.kind = "execute" =>
       LET e == OpcodeTable[call'.opcode + 1]
       IN /\ WritesA(e) => NZOf(cpu', cpu'.a)
          /\ WritesX(e) => NZOf(cpu', cpu'.x)
          /\ WritesY(e) => NZOf(cpu', cpu'.y)]_vars

\* LAS has loaded zero into A, X and S (S was $FD) and Z reads clear.
C12_Witness ==
  /\ call.kind = "execute" /\ call.opcode = 187 /\ hist.start.s = 253
  /\ cpu.a = 0 /\ cpu.x = 0 /\ cpu.s = 0 /\ ~cpu.zero

(***************************************************************************)
(* SpecAdc: ADC #imm for every accumulator, operand and carry-in; the      *)
(* eight ADC opcodes over boundary values, with the D flag either way;     *)
(* and the program of the test two_plus_two, run from reset.               *)
(***************************************************************************)
AdcOpcodes == {97, 101, 105, 109, 113, 117, 121, 125}
AdcBoundary == {0, 1, 2, 127, 128, 129, 254, 255}

\* LDA #2; ADC #2; STA $0200, loaded at 0 with the reset vector set to 0.
TwoPlusTwo == <<169, 2, 105, 2, 141, 0, 2>>

InitAdc ==
  \/ \E a \in Byte, value \in Byte, carry \in BOOLEAN :
       StepInit(Machine(512, a, 0, 0, 253, B2N(carry),
                        load_code(FlatMemoryNew, <<105, value>>, 512, None)), 1)
  \/ \E opcode \in AdcOpcodes, a \in AdcBoundary, value \in AdcBoundary, index \in {0, 1},
        carry \in BOOLEAN, decimal \in BOOLEAN :
       StepInit(WithOperand(Machine(512, a, index, index, 253, B2N(carry) + 8 * B2N(decimal),
                                    load_code(FlatMemoryNew, <<opcode, 16, 3>>, 512, None)),
                            value), 1)
  \/ StepInit(reset(CPUNew(load_code(FlatMemoryNew, TwoPlusTwo, 0, 0))), 3)

SpecAdc == InitAdc /\ [][NextStep]_vars

\* C13: ADC leaves A = (A + M + C) mod 256, C = (A + M + C > 255), V set iff
\* bit 7 of the sum differs from bit 7 of both the old A and M, and N, Z from
\* the new A; and the three instructions LDA #2; ADC #2; STA $0200 run from
\* reset leave memory[$0200] = 4, A = 4 and C, V, Z, N clear.
C13_AdcBinaryAdd ==
  [][call'.kind = "execute" =>
       /\ OpcodeTable[call'.opcode + 1].op = "adc" =>
            LET value == BusReadValue(cpu.bus,
                                      Resolve(cpu, OpcodeTable[call'.opcode + 1].mode, FALSE).addr)
                sum == cpu.a + value + B2N(cpu.carry)
            IN /\ cpu'.a = sum % 256
               /\ cpu'.carry = (sum > 255)
               /\ cpu'.overflow = (/\ TestBit(sum, 7) # TestBit(cpu.a, 7)
                                   /\ TestBit(sum, 7) # TestBit(value, 7))
               /\ cpu'.zero = (cpu'.a = 0)
               /\ cpu'.negative = (cpu'.a >= 128)
       /\ (hist'.limit = 3 /\ hist'.steps = 3) =>
            /\ BusReadValue(cpu'.bus, 512) = 4
            /\ cpu'.a = 4
            /\ ~cpu'.carry /\ ~cpu'.overflow /\ ~cpu'.zero /\ ~cpu'.negative]_vars

\* ADC #$80 with A = $80 and carry clear: A = 0 with C, V and Z set.
C13_Witness ==
  /\ call.kind = "execute" /\ call.opcode = 105 /\ hist.start.a = 128
  /\ cpu.a = 0 /\ cpu.carry /\ cpu.overflow /\ cpu.zero /\ ~cpu.negative

(***************************************************************************)
(* SpecStack: PHA; PLA, PHP; PLP, and PLA or PLP alone, at $0300, for      *)
(* every combination of flags and stack pointers at both ends of the page. *)
(* Memory around the stack page holds marker bytes, so that an access      *)
(* outside $0100..$01FF is seen.                                           *)
(***************************************************************************)
StackPointers == {0, 1, 127, 254, 255}

StackMarkers ==
  << <<0, 242>>, <<1, 243>>, <<255, 240>>, <<256, 161>>, <<257, 163>>, <<384, 165>>,
     <<510, 164>>, <<511, 162>>, <<512, 241>>, <<513, 244>> >>

RECURSIVE PokeAll(_, _, _)
PokeAll(bus, pairs, i) ==
  IF i > Len(pairs) THEN bus
  ELSE PokeAll(BusWrite(bus, pairs[i][1], pairs[i][2]), pairs, i + 1)

StackPrograms == {<<72, 104>>, <<8, 40>>, <<104>>, <<40>>}

InitStack ==
  \E code \in StackPrograms, a \in {0, 1, 128, 255}, s \in StackPointers, p \in FlagBytes :
    StepInit(Machine(768, a, 0, 0, s, p,
                     load_code(PokeAll(FlatMemoryNew, StackMarkers, 1), code, 768, None)),
             Len(code))

\* Bits 7, 6, 3, 2, 1, 0 of a status byte: N, V, D, I, Z, C.
SixFlags(p) == (p % 16) + 16 * (p \div 64)

SpecStack == InitStack /\ [][NextStep]_vars

\* C14: PHA and PHP write one byte at $0100 + S and decrement S modulo 256;
\* PLA and PLP increment S modulo 256 and read the byte at $0100 + S; so PHA
\* followed by PLA leaves A and S, and PHP followed by PLP the six flags and
\* S, as they were, whatever S is; nothing outside $0100..$01FF is written
\* or read.
C14_StackRoundTrip ==
  [][call'.kind = "execute" =>
       /\ call'.opcode = 72 =>
            /\ cpu'.bus = BusWrite(cpu.bus, STACK_BASE + cpu.s, cpu.a)
            /\ cpu'.s = (cpu.s + 255) % 256
       /\ call'.opcode = 8 =>
            /\ cpu'.bus = BusWrite(cpu.bus, STACK_BASE + cpu.s, PushedP(cpu) + 16)
            /\ cpu'.s = (cpu.s + 255) % 256
       /\ call'.opcode = 104 =>
            /\ cpu'.a = BusReadValue(cpu.bus, STACK_BASE + Wrap8(cpu.s + 1))
            /\ cpu'.s = (cpu.s + 1) % 256
            /\ cpu'.bus = cpu.bus
       /\ call'.opcode = 40 =>
            /\ SixFlags(PushedP(cpu'))
                 = SixFlags(BusReadValue(cpu.bus, STACK_BASE + Wrap8(cpu.s + 1)))
            /\ cpu'.s = (cpu.s + 1) % 256
            /\ cpu'.bus = cpu.bus
       /\ (call.kind = "execute" /\ call.opcode = 72 /\ call'.opcode = 104) =>
            (cpu'.a = hist.start.a /\ cpu'.s = hist.start.s)
       /\ (call.kind = "execute" /\ call.opcode = 8 /\ call'.opcode = 40) =>
            (PushedP(cpu') = hist.start.p + 32 /\ cpu'.s = hist.start.s)]_vars

\* PHA; PLA begun with S = 0: the byte went to $0100, S wrapped to $FF and
\* back, and A is $FF again.
C14_Witness ==
  /\ call.kind = "execute" /\ call.opcode = 104 /\ hist.steps = 2
  /\ hist.start.s = 0 /\ hist.start.a = 255 /\ cpu.s = 0 /\ cpu.a = 255
  /\ BusReadValue(cpu.bus, 256) = 255

(***************************************************************************)
(* SpecJsr: JSR at address p to a subroutine whose body is balanced on the *)
(* stack and ends in RTS; p at a page end and at the top of memory, the    *)
(* stack pointer at both ends of the page.                                 *)
(***************************************************************************)
JsrAddresses == {768, 766, 1021, 65532}
JsrTargets == {1280, 1535}

\* RTS; NOP, RTS; PHA, PLA, RTS
JsrBodies == {<<96>>, <<234, 96>>, <<72, 104, 96>>}

InitJsr ==
  \E p \in JsrAddresses, target \in JsrTargets, body \in JsrBodies, s \in StackPointers,
     a \in {0, 255} :
    StepInit(Machine(p, a, 0, 0, s, 0,
                     load_code(load_code(FlatMemoryNew, body, target, None),
                               <<32, target % 256, target \div 256>>, p, None)),
             1 + Len(body))

SpecJsr == InitJsr /\ [][NextStep]_vars

\* C15: JSR at p writes the high byte of p + 2 at $0100 + S and the low byte
\* at $0100 + (S - 1) mod 256, leaves S two lower and jumps to its operand;
\* RTS sets PC to the word above the stack pointer plus one and S two
\* higher; so the RTS that ends a balanced subroutine sets PC to p + 3 and S
\* to its value before the JSR.
C15_JsrRtsRoundTrip ==
  [][call'.kind = "execute" =>
       /\ call'.opcode = 32 =>
            /\ cpu'.bus = BusWrite(BusWrite(cpu.bus, STACK_BASE + cpu.s, (cpu.pc + 2) \div 256),
                                   STACK_BASE + Wrap8(cpu.s + 255), (cpu.pc + 2) % 256)
            /\ cpu'.s = Wrap8(cpu.s + 254)
            /\ cpu'.pc = VectorWord(cpu.bus, cpu.pc + 1)
       /\ call'.opcode = 96 =>
            /\ cpu'.pc = BusReadValue(cpu.bus, STACK_BASE + Wrap8(cpu.s + 1))
                           + 256 * BusReadValue(cpu.bus, STACK_BASE + Wrap8(cpu.s + 2)) + 1
            /\ cpu'.s = Wrap8(cpu.s + 2)
       /\ hist'.steps = hist'.limit =>
            /\ call'.opcode = 96
            /\ cpu'.pc = hist'.start.pc + 3
            /\ cpu'.s = hist'.start.s
            /\ ~cpu'.ovf]_vars

\* The RTS of PHA; PLA; RTS, called by a JSR at $02FE with S = 0: the
\* return address $0300 was pushed at $0100 and $01FF.
C15_Witness ==
  /\ call.kind = "execute" /\ call.opcode = 96 /\ hist.steps = 4
  /\ hist.start.pc = 766 /\ hist.start.s = 0 /\ cpu.pc = 769 /\ cpu.s = 0
  /\ BusReadValue(cpu.bus, 256) = 3 /\ BusReadValue(cpu.bus, 511) = 0

(***************************************************************************)
(* SpecRti: LDA #b1; PHA; LDA #b2; PHA; LDA #b3; PHA; RTI at $0300, for    *)
(* bytes b1, b2, b3 of the scenario and others, and stack pointers at both *)
(* ends of the page.                                                       *)
(***************************************************************************)
RtiBytes == {0, 32, 170, 195, 255}

RtiProgram(b1, b2, b3) == <<169, b1, 72, 169, b2, 72, 169, b3, 72, 64>>

InitRti ==
  \E b1 \in RtiBytes, b2 \in RtiBytes, b3 \in RtiBytes, s \in StackPointers :
    StepInit(Machine(768, 0, 0, 0, s, 0,
                     load_code(FlatMemoryNew, RtiProgram(b1, b2, b3), 768, None)), 7)

SpecRti == InitRti /\ [][NextStep]_vars

\* The status register as it reads after the flags were decoded from byte p.
StatusFrom(p) == (p % 16) + 32 + 64 * (p \div 64)

\* C16 (as stated): for bytes b1, b2, b3 pushed in that order, RTI takes the
\* flags from b1 and sets PC to (b3 << 8) | b2.
C16_RtiFlagsFromFirstPushed ==
  [][(call'.kind = "execute" /\ hist'.steps = 7) =>
       LET b1 == BusReadValue(cpu.bus, 769)
           b2 == BusReadValue(cpu.bus, 772)
           b3 == BusReadValue(cpu.bus, 775)
       IN /\ status_register(cpu') = StatusFrom(b1)
          /\ cpu'.pc = 256 * b3 + b2]_vars

\* C16 (amended): RTI takes the flags from the byte above the stack pointer
\* (the status register then reads with bit 5 set and bit 4 clear), the low
\* byte of PC from the next byte and the high byte from the one after, and
\* leaves S three higher; so for bytes b1, b2, b3 pushed in that order it
\* takes the flags from b3 and sets PC to (b1 << 8) | b2.
C16_RtiFlagsFromLastPushed ==
  [][call'.kind = "execute" =>
       /\ call'.opcode = 64 =>
            /\ status_register(cpu')
                 = StatusFrom(BusReadValue(cpu.bus, STACK_BASE + Wrap8(cpu.s + 1)))
            /\ cpu'.pc = BusReadValue(cpu.bus, STACK_BASE + Wrap8(cpu.s + 2))
                           + 256 * BusReadValue(cpu.bus, STACK_BASE + Wrap8(cpu.s + 3))
            /\ cpu'.s = Wrap8(cpu.s + 3)
       /\ hist'.steps = 7 =>
            LET b1 == BusReadValue(cpu.bus, 769)
                b2 == BusReadValue(cpu.bus, 772)
                b3 == BusReadValue(cpu.bus, 775)
            IN /\ call'.opcode = 64
               /\ status_register(cpu') = StatusFrom(b3)
               /\ cpu'.pc = 256 * b1 + b2
               /\ cpu'.s = hist'.start.s]_vars

\* $AA, $FF, $20 pushed in that order with S = 1 at the start, then RTI:
\* PC is $AAFF and the status register reads $20.
C16_Witness ==
  /\ call.kind = "execute" /\ call.opcode = 64 /\ hist.steps = 7 /\ hist.start.s = 1
  /\ BusReadValue(cpu.bus, 769) = 170 /\ BusReadValue(cpu.bus, 775) = 32
  /\ cpu.pc = 43775 /\ status_register(cpu) = 32 /\ cpu.s = 1

(***************************************************************************)
(* SpecJmp: JMP (ptr) at $0600 for pointers inside a page, at the last     *)
(* byte of a page and at $FFFF, with the byte after the pointer and the    *)
(* byte at the start of the pointer's page chosen independently; and for   *)
(* every pointer with one choice of those bytes.                           *)
(***************************************************************************)
JmpPointers == {255, 512, 767, 768, 1023, 1040, 65280, 65535}

\* The address the high byte of an indirect jump is read from.
PageWrappedNext(ptr) == (ptr \div 256) * 256 + ((ptr + 1) % 256)

JmpMachine(ptr, low, high, next) ==
  Machine(1536, 0, 0, 0, 253, 0,
          BusWrite(BusWrite(BusWrite(
              load_code(FlatMemoryNew, <<108, ptr % 256, ptr \div 256>>, 1536, None),
              (ptr + 1) % 65536, next), PageWrappedNext(ptr), high), ptr, low))

InitJmp ==
  \/ \E ptr \in JmpPointers, low \in {52, 255, 0}, high \in {18, 0, 171}, next \in {86, 0, 18} :
       StepInit(JmpMachine(ptr, low, high, next), 1)
  \/ \E ptr \in 0..65535 : StepInit(JmpMachine(ptr, 52, 18, 86), 1)

SpecJmp == InitJmp /\ [][NextStep]_vars

\* C17: JMP (ptr) sets PC to the word whose low byte is at ptr and whose
\* high byte is at (ptr & $FF00) | ((ptr + 1) & $00FF), and costs 5 cycles;
\* with $6C $FF $02 at PC, $34 at $02FF and $12 at $0200, PC becomes $1234
\* whatever $0300 holds.
C17_IndirectJmpPageWrap ==
  [][(call'.kind = "execute" /\ call'.opcode = 108) =>
       LET ptr == VectorWord(cpu.bus, cpu.pc + 1)
       IN /\ cpu'.pc = BusReadValue(cpu.bus, ptr)
                         + 256 * BusReadValue(cpu.bus, PageWrappedNext(ptr))
          /\ call'.ret = 5
          /\ (/\ ptr = 767 /\ BusReadValue(cpu.bus, 767) = 52
              /\ BusReadValue(cpu.bus, 512) = 18) => cpu'.pc = 4660]_vars

\* JMP ($02FF) with $34 at $02FF, $12 at $0200 and $56 at $0300: PC = $1234.
C17_Witness ==
  /\ call.kind = "execute" /\ call.opcode = 108
  /\ BusReadValue(cpu.bus, 1537) = 255 /\ BusReadValue(cpu.bus, 1538) = 2
  /\ BusReadValue(cpu.bus, 768) = 86 /\ cpu.pc = 4660

(***************************************************************************)
(* SpecZp: loads and stores through ZeroPage,X, ZeroPage,Y, (Indirect,X)   *)
(* and (Indirect),Y at $0600, for every operand byte and index values at   *)
(* both ends of the range.  Page 1 is filled with $A5; the operand ($5A)   *)
(* and the pointer ($0480) are placed where the wrapped address finds      *)
(* them, so an access that spills into $0100.. is seen.                    *)
(*   LDA zp,X $B5  STA zp,X $95  LDX zp,Y $B6  STX zp,Y $96                *)
(*   LDA (zp,X) $A1  STA (zp,X) $81  LDA (zp),Y $B1  STA (zp),Y $91        *)
(***************************************************************************)
ZpOpcodes == {181, 149, 182, 150, 161, 129, 177, 145}

PageOneFilled == [kind |-> "flat", bytes |-> [k \in 256..511 |-> 165]]

\* The bus with the pointer $0480 at zero-page address ptr (high byte at
\* (ptr + 1) mod 256) and $5A at `target`.
ZpPointer(bus, ptr, target) ==
  BusWrite(BusWrite(BusWrite(bus, ptr, 128), (ptr + 1) % 256, 4), target, 90)

ZpBus(opcode, b, x, y) ==
  With(load_code(PageOneFilled, <<opcode, b>>, 1536, None), LAMBDA bus :
    CASE opcode \in {181, 149} -> BusWrite(bus, (b + x) % 256, 90)
      [] opcode \in {182, 150} -> BusWrite(bus, (b + y) % 256, 90)
      [] opcode \in {161, 129} -> ZpPointer(bus, (b + x) % 256, 1152)
      [] opcode \in {177, 145} -> ZpPointer(bus, b, 1152 + y))

InitZp ==
  \E opcode \in ZpOpcodes, b \in Byte, x \in {0, 1, 128, 255}, y \in {0, 2, 129, 255} :
    StepInit(Machine(1536, 119, x, y, 253, 0, ZpBus(opcode, b, x, y)), 1)

SpecZp == InitZp /\ [][NextStep]_vars

ZpWord(bus, ptr) ==
  BusReadValue(bus, ptr % 256) + 256 * BusReadValue(bus, (ptr + 1) % 256)

\* C18: with operand byte b, ZeroPage,X and ZeroPage,Y address (b + X) mod
\* 256 and (b + Y) mod 256; (Indirect,X) takes its pointer from (b + X) mod
\* 256 and (Indirect),Y from b, the high byte of the pointer from the next
\* zero-page address modulo 256; stores write that address and no other,
\* loads read it.
C18_ZeroPageWrap ==
  [][call'.kind = "execute" =>
       LET b == BusReadValue(cpu.bus, cpu.pc + 1)
           zpx == (b + cpu.x) % 256
           zpy == (b + cpu.y) % 256
           indx == ZpWord(cpu.bus, b + cpu.x)
           indy == (ZpWord(cpu.bus, b) + cpu.y) % 65536
       IN /\ call'.opcode = 181 => cpu'.a = BusReadValue(cpu.bus, zpx)
          /\ call'.opcode = 149 => cpu'.bus = BusWrite(cpu.bus, zpx, cpu.a)
          /\ call'.opcode = 182 => cpu'.x = BusReadValue(cpu.bus, zpy)
          /\ call'.opcode = 150 => cpu'.bus = BusWrite(cpu.bus, zpy, cpu.x)
          /\ call'.opcode = 161 => cpu'.a = BusReadValue(cpu.bus, indx)
          /\ call'.opcode = 129 => cpu'.bus = BusWrite(cpu.bus, indx, cpu.a)
          /\ call'.opcode = 177 => cpu'.a = BusReadValue(cpu.bus, indy)
          /\ call'.opcode = 145 => cpu'.bus = BusWrite(cpu.bus, indy, cpu.a)
          /\ call'.opcode \in {181, 161, 177} => cpu'.a = 90
          /\ call'.opcode = 182 => cpu'.x = 90]_vars

\* LDA ($FF,X) with X = 0: the pointer was read from $00FF and $0000, not
\* from $0100.
C18_Witness ==
  /\ call.kind = "execute" /\ call.opcode = 161 /\ cpu.x = 0
  /\ BusReadValue(cpu.bus, 1537) = 255
  /\ BusReadValue(cpu.bus, 255) = 128 /\ BusReadValue(cpu.bus, 0) = 4
  /\ BusReadValue(cpu.bus, 256) = 165 /\ cpu.a = 90

(***************************************************************************)
(* SpecBranch: each of the eight branch opcodes at address p with every    *)
(* offset byte, the tested flags all clear or all set, p in the middle and *)
(* at the end of a page, at 0 and at $FFFD.                                *)
(*   BPL $10  BMI $30  BVC $50  BVS $70  BCC $90  BCS $B0  BNE $D0  BEQ $F0 *)
(***************************************************************************)
BranchOpcodes == {16, 48, 80, 112, 144, 176, 208, 240}
BranchAddresses == {0, 1536, 1662, 1789, 1790, 65533}

InitBranch ==
  \E opcode \in BranchOpcodes, offset \in Byte, p \in BranchAddresses, flags \in {0, 195} :
    StepInit(Machine(p, 0, 0, 0, 253, flags,
                     load_code(FlatMemoryNew, <<opcode, offset>>, p, None)), 1)

SpecBranch == InitBranch /\ [][NextStep]_vars

\* Whether the branch `opcode` is taken in CPU state m.
BranchTaken(opcode, m) ==
  CASE opcode = 16 -> ~m.negative
    [] opcode = 48 -> m.negative
    [] opcode = 80 -> ~m.overflow
    [] opcode = 112 -> m.overflow
    [] opcode = 144 -> ~m.carry
    [] opcode = 176 -> m.carry
    [] opcode = 208 -> ~m.zero
    [] opcode = 240 -> m.zero

\* C19: a branch at p that is not taken returns 2 and leaves PC = p + 2; a
\* taken branch sets PC to (p + 2 + signed offset) mod 65536 and returns 3
\* when that address is on the page of p + 2 and 4 when it is not.
C19_BranchTimingAndTarget ==
  [][(call'.kind = "execute" /\ call'.opcode \in BranchOpcodes) =>
       LET offset == BusReadValue(cpu.bus, cpu.pc + 1)
           next == cpu.pc + 2
           target == (next + (IF offset >= 128 THEN offset - 256 ELSE offset) + 65536) % 65536
       IN /\ ~cpu'.ovf
          /\ call'.ret = cpu'.total_cycles - cpu.total_cycles
          /\ IF BranchTaken(call'.opcode, cpu)
             THEN /\ cpu'.pc = target
                  /\ call'.ret = (IF target \div 256 = next \div 256 THEN 3 ELSE 4)
             ELSE /\ cpu'.pc = next
                  /\ call'.ret = 2]_vars

\* BEQ at $0600 taken 128 bytes backwards, into page 5: four cycles.
C19_Witness ==
  /\ call.kind = "execute" /\ call.opcode = 240 /\ hist.start.pc = 1536
  /\ cpu.pc = 1410 /\ call.ret = 4

(***************************************************************************)
(* SpecIndexed: every opcode that uses Absolute,X, Absolute,Y or           *)
(* (Indirect),Y, at $0600, with base addresses and index values that do    *)
(* and do not carry into the next page (the top of memory included).       *)
(***************************************************************************)
IndexedModes == {"indexed_absolute_x", "indexed_absolute_y", "indirect_indexed_y"}
IndexedOpcodes == {o \in 0..255 : OpcodeTable[o + 1].mode \in IndexedModes}

ReadOps == {"ora", "and", "eor", "adc", "sbc", "cmp", "lda", "ldx", "ldy", "lax", "las", "nop"}
StoreOps == {"sta", "sha", "shx", "shy", "tas"}
ModifyOps == {"asl", "lsr", "rol", "ror", "inc", "dec", "slo", "rla", "sre", "rra", "dcp", "isc"}

\* Cycles of an indexed access without a page crossing, by category.
IndexedBaseCycles(op, mode) ==
  (IF mode = "indirect_indexed_y" THEN 1 ELSE 0)
    + (IF op \in ReadOps THEN 4 ELSE IF op \in StoreOps THEN 5 ELSE 7)

\* $0600: opcode $10 $xx, so that Absolute modes find base (high byte `high`,
\* low byte `low`) as their operand and (Indirect),Y finds it at $10.
IndexedBus(opcode, low, high) ==
  IF OpcodeTable[opcode + 1].mode = "indirect_indexed_y"
  THEN BusWrite(BusWrite(load_code(FlatMemoryNew, <<opcode, 16>>, 1536, None), 16, low),
                17, high)
  ELSE load_code(FlatMemoryNew, <<opcode, low, high>>, 1536, None)

IndexValues == {0, 1, 128, 255}

InitIndexed ==
  \E opcode \in IndexedOpcodes, low \in {0, 1, 128, 255}, high \in {4, 255},
     x \in IndexValues, y \in IndexValues :
    StepInit(Machine(1536, 119, x, y, 253, 0, IndexedBus(opcode, low, high)), 1)

SpecIndexed == InitIndexed /\ [][NextStep]_vars

\* C20: an instruction using Absolute,X, Absolute,Y or (Indirect),Y costs 4
\* cycles (5 for (Indirect),Y) plus 1 when base + index is on another page
\* than base if it only reads; 5 (6) if it is a store and 7 (8) if it is a
\* read-modify-write, whether or not a page is crossed.
C20_PageCrossPenalty ==
  [][(call'.kind = "execute" /\ call'.opcode \in IndexedOpcodes) =>
       LET e == OpcodeTable[call'.opcode + 1]
           base == IF e.mode = "indirect_indexed_y"
                   THEN ZpWord(cpu.bus, BusReadValue(cpu.bus, cpu.pc + 1))
                   ELSE VectorWord(cpu.bus, cpu.pc + 1)
           index == IF e.mode = "indexed_absolute_x" THEN cpu.x ELSE cpu.y
           crossed == ((base + index) % 65536) \div 256 # base \div 256
       IN /\ e.op \in ReadOps \cup StoreOps \cup ModifyOps
          /\ call'.ret = IndexedBaseCycles(e.op, e.mode)
                           + (IF e.op \in ReadOps /\ crossed THEN 1 ELSE 0)
          /\ call'.ret = cpu'.total_cycles - cpu.total_cycles]_vars

\* STA $04FF,X with X = 1: the byte went to $0500, in five cycles.
C20_Witness ==
  /\ call.kind = "execute" /\ call.opcode = 157 /\ cpu.x = 1
  /\ BusReadValue(cpu.bus, 1537) = 255 /\ BusReadValue(cpu.bus, 1538) = 4
  /\ BusReadValue(cpu.bus, 1280) = 119 /\ call.ret = 5

(***************************************************************************)
(* CpuBus harness: a CPU on the CpuBus of cpu_bus.rs, its program in       *)
(* system RAM at $0200, stepped with execute_instruction (the action Step  *)
(* of the SpecStep family).  The cartridge is an NROM with 16 KiB of       *)
(* PRG-ROM, PRG-RAM and horizontal mirroring unless a specification says   *)
(* otherwise.                                                              *)
(***************************************************************************)
PlainNROM == NROMNew(<<>>, 16384, TRUE, "Horizontal")

\* The bus with `code` written from $0200 on, and the CPU about to run it.
CpuBusMachine(bus, code) ==
  Machine(512, 0, 0, 0, 253, 0, load_code(bus, code, 512, None))

(***************************************************************************)
(* SpecController: the host supplies a StandardController snapshot to port *)
(* A; the program strobes $4016 (writes 1, then 0) and then reads $4016    *)
(* over and over.                                                          *)
(*   hist.buttons  the snapshot supplied                                   *)
(***************************************************************************)
\* Reads of $4016 made after the strobe.
MaxPortReads == 258

NoButtons ==
  [a |-> FALSE, b |-> FALSE, select |-> FALSE, start |-> FALSE,
   up |-> FALSE, down |-> FALSE, left |-> FALSE, right |-> FALSE]

Snapshots ==
  {NoButtons, [NoButtons EXCEPT !.start = TRUE], [NoButtons EXCEPT !.a = TRUE],
   [NoButtons EXCEPT !.right = TRUE], [NoButtons EXCEPT !.b = TRUE, !.up = TRUE],
   [NoButtons EXCEPT !.a = TRUE, !.select = TRUE, !.down = TRUE, !.left = TRUE],
   [a |-> TRUE, b |-> TRUE, select |-> TRUE, start |-> TRUE,
    up |-> TRUE, down |-> TRUE, left |-> TRUE, right |-> TRUE]}

\* LDA #1; STA $4016; LDA #0; STA $4016; loop: LDA $4016; JMP loop
StrobeAndRead == <<169, 1, 141, 22, 64, 169, 0, 141, 22, 64, 173, 22, 64, 76, 10, 2>>

InitController ==
  \E buttons \in Snapshots :
    /\ cpu = CpuBusMachine([CpuBusNew(PlainNROM) EXCEPT !.port_a = update(@, buttons)],
                           StrobeAndRead)
    /\ call = [kind |-> "new"]
    /\ hist = [steps |-> 0, limit |-> 4 + 2 * MaxPortReads, start |-> StartOf(cpu),
               buttons |-> buttons]
    /\ ppu = PPUNew

SpecController == InitController /\ [][NextStep]_vars

\* C21: after the snapshot is supplied and $4016 is strobed, the n-th read of
\* $4016 returns button n of A, B, Select, Start, Up, Down, Left, Right for
\* n = 1..8 and returns 1 for every n >= 9, and no read faults.
C21_ControllerShiftRegister ==
  [][(call'.kind = "execute" /\ call'.opcode = 173 /\ hist.steps >= 4) =>
       LET n == (hist.steps - 4) \div 2 + 1
       IN /\ ~cpu'.bus.port_a.ovf
          /\ cpu'.a = IF n <= 8 THEN read_buffer(hist.buttons)[n] ELSE 1]_vars

\* The same for the first 255 reads only.
C21_First255Reads ==
  [][(call'.kind = "execute" /\ call'.opcode = 173 /\ hist.steps >= 4
        /\ (hist.steps - 4) \div 2 + 1 <= 255) =>
       LET n == (hist.steps - 4) \div 2 + 1
       IN /\ ~cpu'.bus.port_a.ovf
          /\ cpu'.a = IF n <= 8 THEN read_buffer(hist.buttons)[n] ELSE 1]_vars

\* The 257th read returned button A again: the cursor wrapped.
C21_Wrapped ==
  /\ call.kind = "execute" /\ call.opcode = 173 /\ hist.steps = 4 + 2 * 256 + 1
  /\ hist.buttons.start /\ ~hist.buttons.a /\ cpu.a = 0 /\ cpu.bus.port_a.ovf

(***************************************************************************)
(* SpecDma: RAM page 3, PRG-RAM and PRG-ROM hold a pattern; the program    *)
(* sets OAMADDR and writes a page number to $4014.                         *)
(***************************************************************************)
\* 256 bytes from `base` on: 1, 2, ..., 255, 1.
PagePattern(base) == [k \in base..(base + 255) |-> ((k - base) % 255) + 1]

DmaPages == {0, 2, 3, 7, 11, 31, 96, 127, 128, 255}
DmaOamAddrs == {0, 1, 2, 127, 128, 255}

DmaCartridge ==
  [NROMNew(PagePattern(0), 16384, TRUE, "Horizontal") EXCEPT !.prg_ram = PagePattern(0)]

\* LDA #a; STA $2003; LDA #page; STA $4014
DmaProgram(a, page) == <<169, a, 141, 3, 32, 169, page, 141, 20, 64>>

InitDma ==
  \E a \in DmaOamAddrs, page \in DmaPages :
    StepInit(CpuBusMachine([CpuBusNew(DmaCartridge) EXCEPT !.ram = PagePattern(768)],
                           DmaProgram(a, page)), 4)

SpecDma == InitDma /\ [][NextStep]_vars

\* C22: after the write of P to $4014 with OAMADDR = a, OAM[(a + i) mod 256]
\* is the byte of the CPU bus at (P << 8) | i, for every i in 0..255.
C22_OamDmaByteIdentity ==
  [][(call'.kind = "execute" /\ call'.opcode = 141 /\ hist.steps = 3) =>
       \A i \in 0..255 :
         RamIndex(cpu'.bus.ppu.oam, (cpu.bus.ppu.oam_addr + i) % 256, 256)
           = CpuBusPeek(cpu.bus, cpu.a * 256 + i)]_vars

\* What the code does instead: the page lands at OAM[0..255] whatever OAMADDR is,
\* and OAMADDR is left as it was.
C22_CopiesToIndexZero ==
  [][(call'.kind = "execute" /\ call'.opcode = 141 /\ hist.steps = 3) =>
       /\ \A i \in 0..255 :
            RamIndex(cpu'.bus.ppu.oam, i, 256) = CpuBusPeek(cpu.bus, cpu.a * 256 + i)
       /\ cpu'.bus.ppu.oam_addr = cpu.bus.ppu.oam_addr]_vars

\* A DMA from RAM page 3 with OAMADDR = 1: OAM[0] holds the first byte of the page.
C22_Misplaced ==
  /\ call.kind = "execute" /\ call.opcode = 141 /\ hist.steps = 4
  /\ cpu.a = 3 /\ cpu.bus.ppu.oam_addr = 1
  /\ RamIndex(cpu.bus.ppu.oam, 0, 256) = 1 /\ RamIndex(cpu.bus.ppu.oam, 1, 256) = 2

(***************************************************************************)
(* SpecPalette: palette RAM reached through PPUADDR/PPUDATA.  A run either *)
(* writes one byte at palette index i and reads index j back, or writes k  *)
(* to every index k = 0..31 in ascending order and reads all 32 back.      *)
(*   hist.mode     "pair" or "fill"                                        *)
(*   hist.i, .j    the indices written and read in a "pair" run            *)
(*   hist.v        the byte written in a "pair" run                        *)
(***************************************************************************)
PaletteBytes == {9, 255}

\* LDA #$3F; STA $2006; LDA #low; STA $2006
SetPaletteAddress(low) == <<169, 63, 141, 6, 32, 169, low, 141, 6, 32>>

\* ... ; LDA #v; STA $2007; ... ; LDA $2007
PairProgram(i, j, v) ==
  SetPaletteAddress(i) \o <<169, v, 141, 7, 32>> \o SetPaletteAddress(j) \o <<173, 7, 32>>

\* ... ; LDX #0; fill: STX $2007; INX; CPX #32; BNE fill;
\* ... ; back: LDA $2007; INX; CPX #64; BNE back
FillProgram ==
  SetPaletteAddress(0) \o <<162, 0, 142, 7, 32, 232, 224, 32, 208, 248>>
    \o SetPaletteAddress(0) \o <<173, 7, 32, 232, 224, 64, 208, 248>>

InitPalette ==
  \/ \E i \in 0..31, j \in 0..31, v \in PaletteBytes :
       /\ cpu = CpuBusMachine(CpuBusNew(PlainNROM), PairProgram(i, j, v))
       /\ call = [kind |-> "new"]
       /\ hist = [steps |-> 0, limit |-> 11, start |-> StartOf(cpu),
                  mode |-> "pair", i |-> i, j |-> j, v |-> v]
       /\ ppu = PPUNew
  \/ /\ cpu = CpuBusMachine(CpuBusNew(PlainNROM), FillProgram)
     /\ call = [kind |-> "new"]
     /\ hist = [steps |-> 0, limit |-> 265, start |-> StartOf(cpu),
                mode |-> "fill", i |-> 0, j |-> 0, v |-> 0]
     /\ ppu = PPUNew

SpecPalette == InitPalette /\ [][NextStep]_vars

\* Indices $10, $14, $18, $1C and $00, $04, $08, $0C, pairwise.
Aliased(i, j) == i = j \/ (i % 4 = 0 /\ (i = j + 16 \/ j = i + 16))

\* C23: a byte written through PPUDATA at palette index i is the byte read
\* back at index j exactly when i = j or {i, j} is one of the pairs
\* {$00,$10}, {$04,$14}, {$08,$18}, {$0C,$1C} (every other index keeps its
\* own byte); after k is written to every index k = 0..31 in ascending
\* order, indices 0, 4, 8, 12 read k + 16 and every other index reads k.
C23_PaletteMirror ==
  [][/\ (hist.mode = "pair" /\ hist.steps = 10) =>
          /\ call'.opcode = 173
          /\ cpu'.a = IF Aliased(hist.i, hist.j) THEN hist.v ELSE 0
     /\ (hist.mode = "fill" /\ call'.opcode = 173) =>
          LET k == cpu.x - 32
          IN /\ k \in 0..31
             /\ cpu.bus.ppu.palette_ram = cpu'.bus.ppu.palette_ram
             /\ cpu'.a = IF k \in {0, 4, 8, 12} THEN k + 16 ELSE k
     /\ (hist.mode = "fill" /\ hist.steps = 264) => cpu'.x = 64]_vars

\* The byte written at $3F1C has just been read back at $3F0C.
C23_Witness ==
  /\ hist.mode = "pair" /\ hist.steps = 11 /\ hist.i = 28 /\ hist.j = 12
  /\ hist.v = 255 /\ cpu.a = 255 /\ call.opcode = 173

(***************************************************************************)
(* SpecHoles: with an NROM cartridge in the slot the program reads and     *)
(* then writes one address that nothing is mapped to.                      *)
(*   hist.address  the address                                             *)
(***************************************************************************)
\* $4000-$5FFF without the OAM-DMA port and the two controller ports.
HoleAddresses == (16384..24575) \ {16404, 16406, 16407}

\* LDX #v; LDA address; STX address
HoleProgram(address, v) ==
  <<162, v, 173, address % 256, address \div 256, 142, address % 256, address \div 256>>

InitHoles ==
  \E address \in HoleAddresses, v \in {1, 255} :
    /\ cpu = CpuBusMachine(CpuBusNew(PlainNROM), HoleProgram(address, v))
    /\ call = [kind |-> "new"]
    /\ hist = [steps |-> 0, limit |-> 3, start |-> StartOf(cpu), address |-> address]
    /\ ppu = PPUNew

SpecHoles == InitHoles /\ [][NextStep]_vars

\* C24: with an NROM cartridge, a read of an address in $4000-$4013, $4015,
\* $4018-$401F or $4020-$5FFF returns 0, a write to it changes no state, and
\* neither faults.
C24_HolesHarmless ==
  [][/\ hist.steps = 1 =>
          /\ call'.opcode = 173
          /\ cpu'.a = 0
          /\ ~cpu'.bus.cartridge.panic
     /\ hist.steps = 2 =>
          /\ call'.opcode = 142
          /\ cpu'.bus = cpu.bus
          /\ ~cpu'.bus.cartridge.panic]_vars

\* The same for the addresses below the cartridge range only.
C24_IoHolesHarmless ==
  [][hist.address < 16416 =>
       /\ hist.steps = 1 => (cpu'.a = 0 /\ cpu'.bus = cpu.bus)
       /\ hist.steps = 2 => cpu'.bus = cpu.bus]_vars

\* The read of $4020 reached the panic!() arm of NROM::cpu_read.
C24_CartridgeFault ==
  /\ hist.address = 16416 /\ hist.steps = 2 /\ cpu.bus.cartridge.panic

(***************************************************************************)
(* SpecRom: the host hands a file to Cartridge::load.                      *)
(*   hist.file    the file                                                 *)
(*   hist.loaded  load has been called                                     *)
(***************************************************************************)
\* Header bytes 0..3, 4 (PRG units), 5 (CHR units), 6 and 7 (flags).
Magics == {<<78, 69, 83, 26>>, <<78, 69, 83, 0>>}
PrgUnits == {0, 1, 2, 3}
ChrUnits == {0, 1, 2}
Flags6 == {0, 1, 2, 4, 8, 16}
Flags7 == {0, 1, 2, 3, 4, 8, 12, 16}

\* The length the header declares: header, trainer, PRG-ROM, CHR-ROM.
DeclaredLength(prg, chr, flags6) ==
  16 + (IF TestBit(flags6, 2) THEN 512 ELSE 0) + prg * 16384 + chr * 8192

RomFiles ==
  {[len |-> 0, head |-> <<>>],
   [len |-> 15, head |-> <<78, 69, 83, 26, 1, 1, 0, 0, 0, 0, 0, 0, 0, 0, 0>>]}
  \cup
  UNION {{[len |-> len,
           head |-> t[1] \o <<t[2], t[3], t[4], t[5], 0, 0, 0, 0, 0, 0, 0, 0>>] :
            len \in {n \in {16, DeclaredLength(t[2], t[3], t[4]) - 1,
                            DeclaredLength(t[2], t[3], t[4]),
                            DeclaredLength(t[2], t[3], t[4]) + 1} : n >= 16}} :
         t \in Magics \X PrgUnits \X ChrUnits \X Flags6 \X Flags7}

InitRom ==
  \E file \in RomFiles :
    /\ cpu = NESNew
    /\ call = [kind |-> "new"]
    /\ hist = [file |-> file, loaded |-> FALSE]
    /\ ppu = PPUNew

Load ==
  /\ ~hist.loaded
  /\ call' = [kind |-> "load", result |-> CartridgeLoad(hist.file)]
  /\ hist' = [hist EXCEPT !.loaded = TRUE]
  /\ UNCHANGED <<cpu, ppu>>

NextRom == Load

SpecRom == InitRom /\ [][NextRom]_vars

\* The defects of a file, read off its bytes.
TooShort(file) ==
  file.len < 16 \/ file.len < DeclaredLength(file.head[5], file.head[6], file.head[7])
BadFormat(file) ==
  file.len >= 16 /\ (SubSeq(file.head, 1, 4) # <<78, 69, 83, 26>>
                       \/ (file.head[8] \div 4) % 4 = 2)
BadMapper(file) ==
  file.len >= 16 /\ (file.head[7] \div 16 # 0 \/ file.head[8] \div 16 # 0)
BadConsole(file) == file.len >= 16 /\ file.head[8] % 4 # 0
Defective(file) == TooShort(file) \/ BadFormat(file) \/ BadMapper(file) \/ BadConsole(file)

\* An error names a defect the file has.
Classified(file, error) ==
  CASE error = "MalformedRomFile" -> TooShort(file)
    [] error = "UnsupportedFormat" -> BadFormat(file)
    [] error = "UnsupportedMapper" -> BadMapper(file)
    [] error = "UnsupportedConsole" -> BadConsole(file)
    [] OTHER -> FALSE

\* C25: Cartridge::load never panics: for every file it returns a cartridge
\* or a RomLoadError; an error names a defect of the file (short or shorter
\* than declared, missing magic or NES 2.0, mapper other than 0, console
\* other than NES), a defective file gets an error, and a file without
\* defect gets a cartridge, whatever PRG-ROM and CHR-ROM sizes it declares.
C25_LoadNeverPanics ==
  call.kind = "load" =>
    /\ call.result.outcome \in {"Ok", "Err"}
    /\ call.result.outcome = "Err" <=> Defective(hist.file)
    /\ call.result.outcome = "Err" => Classified(hist.file, call.result.error)

\* What the code does: errors are classified as the claim says, and a file
\* without defect yields a cartridge exactly when it declares 16 KiB or
\* 32 KiB of PRG-ROM and 8 KiB of CHR-ROM, and a panic otherwise.
C25_PanicsOnUnsupportedSizes ==
  call.kind = "load" =>
    /\ call.result.outcome = "Err" <=> Defective(hist.file)
    /\ call.result.outcome = "Err" => Classified(hist.file, call.result.error)
    /\ call.result.outcome = "Ok" <=>
          (~Defective(hist.file) /\ hist.file.head[5] \in {1, 2} /\ hist.file.head[6] = 1)

\* A well-formed header declaring no PRG-ROM and no CHR-ROM made load panic.
C25_Panicked ==
  /\ call.kind = "load" /\ call.result.outcome = "panic"
  /\ hist.file = [len |-> 16, head |-> <<78, 69, 83, 26, 0, 0, 0, 0, 0, 0, 0, 0, 0, 0, 0, 0>>]

(***************************************************************************)
(* SpecDebug: a CPU on the CpuBus with a debugger attached.  The PPU is in *)
(* VBlank with OAMADDR = 5; the program latches PPUADDR $2108, strobes the *)
(* controllers and jumps to a target address, from where the CPU runs on.  *)
(*   hist.debugger  the attached debugger                                  *)
(*   hist.recorded  every snapshot recorded so far, oldest first           *)
(*   hist.target    the address jumped to                                  *)
(***************************************************************************)
BacktraceLimits == {None, 0, 1, 2, 3}
DebugTargets == {768, 8192, 8194, 8196, 8197, 16404, 16406, 32768, 65534}

\* LDA #$21; STA $2006; LDA #$08; STA $2006; LDA #1; STA $4016; JMP target
DebugProgram(target) ==
  <<169, 33, 141, 6, 32, 169, 8, 141, 6, 32, 169, 1, 141, 22, 64,
    76, target % 256, target \div 256>>

DebugBus ==
  [CpuBusNew(PlainNROM) EXCEPT !.ppu.ppu_status = 128, !.ppu.y = 241, !.ppu.x = 1,
                               !.ppu.oam_addr = 5]

InitDebug ==
  \E limit \in BacktraceLimits, target \in DebugTargets :
    /\ cpu = CpuBusMachine(DebugBus, DebugProgram(target))
    /\ call = [kind |-> "new"]
    /\ hist = [steps |-> 0, limit |-> 10, start |-> StartOf(cpu), target |-> target,
               debugger |-> DebuggerNew(limit), recorded |-> <<>>]
    /\ ppu = PPUNew

DebugStep ==
  /\ hist.steps < hist.limit
  /\ With(ExecuteDebugged(cpu, hist.debugger), LAMBDA d :
        /\ cpu' = d.r.m
        /\ call' = ExecuteTrace(d.r)
        /\ hist' = [hist EXCEPT
                      !.steps = @ + 1,
                      !.debugger = d.debugger,
                      !.recorded = IF cpu.jammed THEN @
                                   ELSE Append(@, current_state(cpu).state)])
  /\ UNCHANGED ppu

NextDebug == DebugStep

SpecDebug == InitDebug /\ [][NextDebug]_vars

\* The addresses a snapshot taken at pc reads.
SnapshotReads(pc) == {pc, Wrap16(pc + 1), Wrap16(pc + 2)}

\* C26: taking and recording a snapshot changes no CPU register and no
\* bus-visible state, whatever the PC, so that a step of the CPU with the
\* debugger attached ends in the state the same step ends in without it.
C26_SnapshotsNonMutating ==
  [][call'.kind = "execute" =>
       /\ current_state(cpu).m = cpu
       /\ cpu' = execute_instruction(cpu).m]_vars

\* The same for the PCs whose three bytes lie in RAM or at $6000 and above.
C26_NonMutatingOutsideIo ==
  [][(call'.kind = "execute" /\ cpu.pc <= 65533
        /\ \A address \in SnapshotReads(cpu.pc) : address <= 8191 \/ address >= 24576) =>
       /\ current_state(cpu).m = cpu
       /\ cpu' = execute_instruction(cpu).m]_vars

\* The snapshot taken at pc = $2002 cleared the VBlank bit and the latched
\* PPUADDR.
C26_StatusCleared ==
  /\ hist.target = 8194 /\ hist.steps = 8
  /\ Len(hist.recorded) = 8 /\ hist.recorded[8].pc = 8194
  /\ hist.recorded[8].next_instruction[1] = 128
  /\ ~TestBit(cpu.bus.ppu.ppu_status, 7)

\* The last `count` elements of a sequence (all of it if it is shorter).
LastOf(seq, count) ==
  SubSeq(seq, Len(seq) - (IF count < Len(seq) THEN count ELSE Len(seq)) + 1, Len(seq))

\* C27: a debugger of capacity N retains at most N snapshots, and they are the
\* most recently recorded ones in the order they were recorded, for every N
\* including 0 and 1.
C27_BoundedRing ==
  /\ Len(hist.debugger.states) <= hist.debugger.backtrace_limit
  /\ hist.debugger.states = LastOf(hist.recorded, hist.debugger.backtrace_limit)

\* The same for the capacities from 1 up.
C27_BoundedRingFromOne ==
  hist.debugger.backtrace_limit >= 1 =>
    /\ Len(hist.debugger.states) <= hist.debugger.backtrace_limit
    /\ hist.debugger.states = LastOf(hist.recorded, hist.debugger.backtrace_limit)

\* What a debugger of capacity 0 does: it retains every snapshot.
C27_ZeroKeepsAll ==
  hist.debugger.backtrace_limit = 0 => hist.debugger.states = hist.recorded

\* A debugger of capacity 0 holding ten snapshots.
C27_Overfull ==
  hist.debugger.backtrace_limit = 0 /\ Len(hist.debugger.states) = 10

(***************************************************************************)
(* SpecStatus: PPUSTATUS reads.  The program writes $2005 and/or $2006     *)
(* once (or not at all), reads $2002, writes $2005 twice and $2006 twice   *)
(* (in either order) and reads $2002 again.                                *)
(*   hist.read_at  the step that reads $2002 first                         *)
(*   hist.status   PPUSTATUS before that read                              *)
(*   hist.order    "scroll" if $2005 is written before $2006, else "addr"  *)
(*   hist.x, .y, .hi, .lo  the bytes written to $2005 and $2006            *)
(***************************************************************************)
\* The PPU at the first dot of scanline 241 with VBlank flagged, or at power-on.
StatusBus(status) ==
  IF status = 128
  THEN [CpuBusNew(PlainNROM) EXCEPT !.ppu.ppu_status = 128, !.ppu.y = 241]
  ELSE CpuBusNew(PlainNROM)

\* LDX #first; STX port; LDX #second; STX port
WriteTwice(port, first, second) ==
  <<162, first, 142, port % 256, port \div 256, 162, second, 142, port % 256, port \div 256>>

\* LDA #$55; [STA $2005]; [STA $2006]; LDA $2002; ... ; LDA $2002
StatusProgram(pre_scroll, pre_addr, order, x, y, hi, lo) ==
  <<169, 85>>
    \o (IF pre_scroll THEN <<141, 5, 32>> ELSE <<>>)
    \o (IF pre_addr THEN <<141, 6, 32>> ELSE <<>>)
    \o <<173, 2, 32>>
    \o (IF order = "scroll"
        THEN WriteTwice(8197, x, y) \o WriteTwice(8198, hi, lo)
        ELSE WriteTwice(8198, hi, lo) \o WriteTwice(8197, x, y))
    \o <<173, 2, 32>>

InitStatus ==
  \E pre_scroll \in BOOLEAN, pre_addr \in BOOLEAN, order \in {"scroll", "addr"},
     status \in {0, 128}, x \in {17, 255}, y \in {34}, hi \in {33, 255}, lo \in {0, 8} :
    /\ cpu = CpuBusMachine(StatusBus(status),
                           StatusProgram(pre_scroll, pre_addr, order, x, y, hi, lo))
    /\ call = [kind |-> "new"]
    /\ hist = [steps |-> 0, limit |-> 11 + B2N(pre_scroll) + B2N(pre_addr),
               start |-> StartOf(cpu), read_at |-> 1 + B2N(pre_scroll) + B2N(pre_addr),
               status |-> status, order |-> order, x |-> x, y |-> y, hi |-> hi, lo |-> lo]
    /\ ppu = PPUNew

SpecStatus == InitStatus /\ [][NextStep]_vars

\* C28: a read of $2002 returns the status bits as they were before the read
\* (which is what a peek of $2002 returns, then and at any time); afterwards
\* the VBlank bit is 0 and the other status bits are unchanged, and the write
\* toggle is reset: the next write to $2005 sets the X offset and the one
\* after it the Y offset, and the next two writes to $2006 latch the address
\* ((hi << 8) | lo) & $3FFF, whatever was written to $2005/$2006 before the read.
C28_StatusRead ==
  [][LET at == hist.steps - hist.read_at
         scroll_at == IF hist.order = "scroll" THEN 2 ELSE 6
         addr_at == IF hist.order = "scroll" THEN 6 ELSE 2
     IN /\ CpuBusPeek(cpu.bus, 8194) = cpu.bus.ppu.ppu_status
        /\ at = 0 =>
             /\ call'.opcode = 173
             /\ cpu.bus.ppu.ppu_status = hist.status
             /\ cpu'.a = hist.status
             /\ cpu'.bus.ppu.ppu_status = hist.status % 128
             /\ cpu'.bus.ppu.ppu_scroll.first_write
        /\ at = scroll_at =>
             /\ call'.opcode = 142
             /\ cpu'.bus.ppu.ppu_scroll.offset_x = hist.x
             /\ ~cpu'.bus.ppu.ppu_scroll.first_write
        /\ at = scroll_at + 2 =>
             /\ call'.opcode = 142
             /\ cpu'.bus.ppu.ppu_scroll.offset_x = hist.x
             /\ cpu'.bus.ppu.ppu_scroll.offset_y = hist.y
        /\ at = addr_at + 2 =>
             /\ call'.opcode = 142
             /\ cpu'.bus.ppu.ppu_addr = (hist.hi * 256 + hist.lo) % 16384
        /\ at = 9 =>
             /\ call'.opcode = 173
             /\ cpu'.a = hist.status % 128
             /\ cpu'.bus.ppu.ppu_status = hist.status % 128]_vars

\* The read of $2002 returned $80 in the second-write state of $2005 and left
\* VBlank clear; the write to $2005 after it has set the X offset.
C28_Witness ==
  /\ hist.status = 128 /\ hist.read_at = 3 /\ hist.order = "scroll"
  /\ hist.steps = hist.read_at + 3
  /\ cpu.a = 128 /\ cpu.bus.ppu.ppu_status = 0
  /\ cpu.bus.ppu.ppu_scroll.offset_x = hist.x /\ hist.x = 255

(***************************************************************************)
(* SpecToggle: the program reads $2002, writes the scroll offsets x0, y0   *)
(* to $2005 and the address hi0:lo0 to $2006 (two writes each, which       *)
(* leaves the first-write state), and then writes v1 and v2 to             *)
(*   "scroll_addr"  $2005, then $2006                                      *)
(*   "addr_scroll"  $2006, then $2005                                      *)
(*   "addr_addr"    $2006 twice                                            *)
(* as hist.kind says.                                                      *)
(***************************************************************************)
ToggleKinds == {"scroll_addr", "addr_scroll", "addr_addr"}

\* LDA $2002; ... ; LDX #v1; STX first; LDX #v2; STX second
ToggleProgram(kind, x0, y0, hi0, lo0, v1, v2) ==
  <<173, 2, 32>> \o WriteTwice(8197, x0, y0) \o WriteTwice(8198, hi0, lo0)
    \o <<162, v1, 142, IF kind = "scroll_addr" THEN 5 ELSE 6, 32,
         162, v2, 142, IF kind = "addr_scroll" THEN 5 ELSE 6, 32>>

InitToggle ==
  \E kind \in ToggleKinds, hi0 \in {33, 63}, lo0 \in {8, 33}, v1 \in {35, 255}, v2 \in {0, 69} :
    /\ cpu = CpuBusMachine(CpuBusNew(PlainNROM), ToggleProgram(kind, 1, 2, hi0, lo0, v1, v2))
    /\ call = [kind |-> "new"]
    /\ hist = [steps |-> 0, limit |-> 13, start |-> StartOf(cpu), kind |-> kind,
               x0 |-> 1, y0 |-> 2, hi0 |-> hi0, lo0 |-> lo0, v1 |-> v1, v2 |-> v2]
    /\ ppu = PPUNew

SpecToggle == InitToggle /\ [][NextStep]_vars

\* C29: $2005 and $2006 share one write toggle.  From the first-write state,
\* a write to $2005 followed by a write to $2006 sets the X offset and then
\* the low byte of the address (the high byte stays as latched); a write to
\* $2006 followed by a write to $2005 leaves the X offset alone and sets the
\* Y offset; two writes hi, lo to $2006 latch ((hi << 8) | lo) & $3FFF.
C29_SharedToggle ==
  [][hist.steps = 12 =>
       /\ call'.opcode = 142
       /\ hist.kind = "scroll_addr" =>
            /\ cpu'.bus.ppu.ppu_scroll.offset_x = hist.v1
            /\ cpu'.bus.ppu.ppu_addr = (hist.hi0 % 64) * 256 + hist.v2
       /\ hist.kind = "addr_scroll" =>
            /\ cpu'.bus.ppu.ppu_scroll.offset_x = hist.x0
            /\ cpu'.bus.ppu.ppu_scroll.offset_y = hist.v2
       /\ hist.kind = "addr_addr" =>
            cpu'.bus.ppu.ppu_addr = (hist.v1 * 256 + hist.v2) % 16384]_vars

\* What the code does: $2005 has a toggle of its own, which writes to $2006
\* do not flip, and $2006 has none: every write shifts the latched address
\* left by eight bits and puts the byte below it.
C29_SeparateLatches ==
  [][hist.steps = 12 =>
       /\ hist.kind = "scroll_addr" =>
            /\ cpu'.bus.ppu.ppu_scroll.offset_x = hist.v1
            /\ cpu'.bus.ppu.ppu_addr = (hist.lo0 * 256 + hist.v2) % 16384
       /\ hist.kind = "addr_scroll" =>
            /\ cpu'.bus.ppu.ppu_scroll.offset_x = hist.v2
            /\ cpu'.bus.ppu.ppu_scroll.offset_y = hist.y0
       /\ hist.kind = "addr_addr" =>
            cpu'.bus.ppu.ppu_addr = (hist.v1 * 256 + hist.v2) % 16384]_vars

\* After one write to $2006, the write of $45 to $2005 landed in the X offset.
C29_TakenAsFirstWrite ==
  /\ hist.kind = "addr_scroll" /\ hist.steps = 13 /\ hist.v2 = 69
  /\ cpu.bus.ppu.ppu_scroll.offset_x = 69 /\ cpu.bus.ppu.ppu_scroll.offset_y = 2

(***************************************************************************)
(* SpecData: the PPU bus holds $AB (171) at the address hist.a and 0       *)
(* elsewhere (CHR-ROM below $2000, nametable RAM through the cartridge's   *)
(* mirroring from $2000, palette RAM from $3F00; for $3000-$3EFF the byte  *)
(* sits in the nametable cell 4 KiB below).  The read buffer holds $5A     *)
(* (90).  The program sets PPUCTRL, latches hist.a through $2006 and       *)
(* then reads $2007 twice, or writes it once.                              *)
(***************************************************************************)
DataAddresses ==
  {0, 1, 4095, 8160, 8191, 8192, 9215, 9216, 12256, 12287,
   12288, 14000, 16127, 16128, 16143, 16144, 16159, 16352, 16383}

DataBus(a) ==
  With([CpuBusNew(PlainNROM) EXCEPT !.ppu.ppu_data_read_buffer = 90], LAMBDA bus :
    IF a <= 8191
    THEN [bus EXCEPT !.cartridge.chr_rom = RamIndexMut(@, a, 8192, 171)]
    ELSE IF a <= 16127
    THEN [bus EXCEPT !.cartridge.vram =
            RamIndexMut(@, mirror_vram_address(a % 4096, "Horizontal"), 2048, 171)]
    ELSE [bus EXCEPT !.ppu.palette_ram = PaletteSet(@, a - 16128, 171)])

\* LDA #ctrl; STA $2000; LDA $2002; LDX #hi; STX $2006; LDX #lo; STX $2006;
\* then LDA $2007; LDA $2007   or   LDA #$3C; STA $2007
DataProgram(op, ctrl, a) ==
  <<169, ctrl, 141, 0, 32, 173, 2, 32>> \o WriteTwice(8198, a \div 256, a % 256)
    \o (IF op = "read" THEN <<173, 7, 32, 173, 7, 32>> ELSE <<169, 60, 141, 7, 32>>)

InitData ==
  \E op \in {"read", "write"}, ctrl \in {0, 4, 128, 132}, a \in DataAddresses :
    /\ cpu = CpuBusMachine(DataBus(a), DataProgram(op, ctrl, a))
    /\ call = [kind |-> "new"]
    /\ hist = [steps |-> 0, limit |-> 9, start |-> StartOf(cpu), op |-> op, ctrl |-> ctrl, a |-> a]
    /\ ppu = PPUNew

SpecData == InitData /\ [][NextStep]_vars

\* The byte the PPU bus holds at address x in a run that started with
\* $AB at hist.a.
DataAt(x) == IF x = hist.a THEN 171 ELSE 0

\* Palette addresses 32 apart from hist.a are left out of the comparison:
\* how palette indices above 31 fold onto the 32 cells is a question of
\* PaletteRam's indexing, not of PPUDATA.
PaletteCellKnown(x) == x = hist.a \/ x % 32 # hist.a % 32

\* The next instruction is an access of $2007 and no earlier one has faulted.
DataAccess ==
  /\ ~cpu.bus.cartridge.panic
  /\ \/ hist.op = "read" /\ hist.steps \in {7, 8}
     \/ hist.op = "write" /\ hist.steps = 8

\* C30: with an NROM cartridge and any latched address a in $0000..$3FFF, a
\* read of $2007 below $3F00 returns the byte the previous read buffered and
\* buffers the PPU-bus byte at a, a read from $3F00 up returns the palette
\* byte at a, and every read or write of $2007 is carried out and leaves
\* the latched address at (a + inc) mod $4000, inc = 32 if PPUCTRL bit 2 is
\* set and 1 otherwise.
C30_PpuDataAccess ==
  [][DataAccess =>
       LET a == cpu.bus.ppu.ppu_addr
           step == IF (hist.ctrl \div 4) % 2 = 1 THEN 32 ELSE 1
       IN  /\ ~cpu'.bus.cartridge.panic
           /\ cpu'.bus.ppu.ppu_addr = (a + step) % 16384
           /\ hist.op = "read" /\ a < 16128 =>
                /\ cpu'.a = cpu.bus.ppu.ppu_data_read_buffer
                /\ cpu'.bus.ppu.ppu_data_read_buffer = DataAt(a)
           /\ hist.op = "read" /\ a >= 16128 /\ PaletteCellKnown(a) => cpu'.a = DataAt(a)]_vars

\* The same, for addresses outside $3000..$3EFF.
C30_OutsideMirrorRange ==
  [][DataAccess /\ ~(cpu.bus.ppu.ppu_addr \in 12288..16127) =>
       LET a == cpu.bus.ppu.ppu_addr
           step == IF (hist.ctrl \div 4) % 2 = 1 THEN 32 ELSE 1
       IN  /\ ~cpu'.bus.cartridge.panic
           /\ cpu'.bus.ppu.ppu_addr = (a + step) % 16384
           /\ hist.op = "read" /\ a < 16128 =>
                /\ cpu'.a = cpu.bus.ppu.ppu_data_read_buffer
                /\ cpu'.bus.ppu.ppu_data_read_buffer = DataAt(a)
           /\ hist.op = "read" /\ a >= 16128 /\ PaletteCellKnown(a) => cpu'.a = DataAt(a)]_vars

\* In $3000..$3EFF every access reaches the cartridge's panic arm.
C30_MirrorRangeFaults ==
  [][DataAccess /\ cpu.bus.ppu.ppu_addr \in 12288..16127 =>
       cpu'.bus.cartridge.panic]_vars

\* The first read of $2007 with $3000 latched has faulted in the cartridge.
C30_CartridgeFault ==
  /\ hist.op = "read" /\ hist.a = 12288 /\ hist.steps = 8
  /\ cpu.bus.cartridge.panic

\* The second read of $2007, with $2001 latched after a read at $2000 that
\* buffered $AB, has returned $AB.
C30_BufferedReadSeen ==
  /\ hist.op = "read" /\ hist.a = 8192 /\ hist.ctrl = 0 /\ hist.steps = 9
  /\ cpu.a = 171 /\ cpu.bus.ppu.ppu_addr = 8194 /\ ~cpu.bus.cartridge.panic

(***************************************************************************)
(* SpecCart: an NROM cartridge built from a 16 KiB or 32 KiB PRG image and *)
(* an 8 KiB CHR image sits on the bus; cpu_write and ppu_write are called  *)
(* on it, up to MaxCartWrites times.  hist keeps the images the cartridge  *)
(* was built from.                                                          *)
(***************************************************************************)
MaxCartWrites == 2

\* Marked bytes at both ends of each 16 KiB half; the rest of the image is 0.
PrgImage(size) ==
  [k \in {0, 1, 16383} \cup (IF size = 32768 THEN {16384, 32767} ELSE {}) |->
     IF k = 0 THEN 17 ELSE IF k = 1 THEN 34 ELSE IF k = 16383 THEN 51
     ELSE IF k = 16384 THEN 68 ELSE 85]
ChrImage == [k \in {0, 1, 8191} |-> IF k = 0 THEN 102 ELSE IF k = 1 THEN 119 ELSE 136]

CartConfigs ==
  {<<16384, TRUE, "Horizontal">>, <<16384, FALSE, "Vertical">>,
   <<32768, TRUE, "Vertical">>, <<32768, FALSE, "Horizontal">>}

CartCpuWriteAddresses == {24576, 32768, 49151, 49152, 65535}
NametableOffsets == {0, 1023, 1024, 2047, 2048, 3071, 3072, 4095}
CartPpuWriteAddresses == {0, 8191} \cup {8192 + k : k \in NametableOffsets}
CartValues == {90, 255}

InitCart ==
  \E config \in CartConfigs :
    /\ cpu = CpuBusMachine(
               CpuBusNew([NROMNew(PrgImage(config[1]), config[1], config[2], config[3])
                            EXCEPT !.chr_rom = ChrImage]), <<>>)
    /\ call = [kind |-> "new"]
    /\ hist = [steps |-> 0, prg_rom |-> PrgImage(config[1]), prg_rom_size |-> config[1],
               chr_rom |-> ChrImage]
    /\ ppu = PPUNew

\* cartridge.cpu_write(address, value)
CpuWrite ==
  /\ hist.steps < MaxCartWrites
  /\ \E address \in CartCpuWriteAddresses, value \in CartValues :
       /\ cpu' = [cpu EXCEPT !.bus.cartridge = CartCpuWrite(@, address, value)]
       /\ call' = [kind |-> "cpu_write", address |-> address, value |-> value]
  /\ hist' = [hist EXCEPT !.steps = @ + 1]
  /\ UNCHANGED ppu

\* cartridge.ppu_write(address, value)
PpuWrite ==
  /\ hist.steps < MaxCartWrites
  /\ \E address \in CartPpuWriteAddresses, value \in CartValues :
       /\ cpu' = [cpu EXCEPT !.bus.cartridge = CartPpuWrite(@, address, value)]
       /\ call' = [kind |-> "ppu_write", address |-> address, value |-> value]
  /\ hist' = [hist EXCEPT !.steps = @ + 1]
  /\ UNCHANGED ppu

NextCart == CpuWrite \/ PpuWrite

SpecCart == InitCart /\ [][NextCart]_vars

CartCpuReadAddresses == {32768, 32769, 32770, 49151, 49152, 49153, 65535}
CartChrReadAddresses == {0, 1, 2, 4096, 8191}

\* C31: after any sequence of cpu_write and ppu_write calls on an NROM
\* cartridge, cpu_read(a) for a in $8000..$FFFF is the byte of the PRG image
\* at (a - $8000) mod prg_rom_size, so a 16 KiB image reads the same at a
\* and a + $4000, and ppu_read(a) for a in $0000..$1FFF is the byte of the
\* CHR image at a; the reads fault nowhere.
C31_RomImmutableAndMirrored ==
  /\ \A a \in CartCpuReadAddresses :
       /\ CartCpuReadValue(cpu.bus.cartridge, a)
            = SparseGet(hist.prg_rom, (a - 32768) % hist.prg_rom_size)
       /\ ~CartCpuAfterRead(cpu.bus.cartridge, a).panic
       /\ (hist.prg_rom_size = 16384 /\ a < 49152) =>
            CartCpuReadValue(cpu.bus.cartridge, a)
              = CartCpuReadValue(cpu.bus.cartridge, a + 16384)
  /\ \A a \in CartChrReadAddresses :
       /\ CartPpuReadValue(cpu.bus.cartridge, a) = SparseGet(hist.chr_rom, a)
       /\ ~CartPpuAfterRead(cpu.bus.cartridge, a).panic

\* After two writes, the last one to $C000, a 16 KiB cartridge still reads
\* the first byte of its PRG image at $C000 and the last byte of its CHR
\* image at $1FFF.
C31_Witness ==
  /\ hist.steps = 2 /\ hist.prg_rom_size = 16384
  /\ call.kind = "cpu_write" /\ call.address = 49152
  /\ CartCpuReadValue(cpu.bus.cartridge, 49152) = 17
  /\ CartPpuReadValue(cpu.bus.cartridge, 8191) = 136

\* The physical bank behind each of the four 1 KiB quadrants.
QuadrantBanks(mirroring) ==
  IF mirroring = "Horizontal" THEN <<"a", "a", "b", "b">> ELSE <<"a", "b", "a", "b">>

SameMirrorClass(mirroring, k, j) ==
  /\ k % 1024 = j % 1024
  /\ QuadrantBanks(mirroring)[(k \div 1024) + 1] = QuadrantBanks(mirroring)[(j \div 1024) + 1]

NametableReadOffsets == NametableOffsets \cup {1, 1025, 2049, 3073}

\* C32: a byte written with ppu_write at $2000 + k is read back with
\* ppu_read at $2000 + j exactly for the j of the same mirror class (same
\* offset in the quadrant, same physical bank: quadrants (a,a,b,b) under
\* Horizontal and (a,b,a,b) under Vertical mirroring); every other
\* nametable address reads what it read before.
C32_NametableMirroring ==
  [][(call'.kind = "ppu_write" /\ call'.address >= 8192) =>
       \A j \in NametableReadOffsets :
         CartPpuReadValue(cpu'.bus.cartridge, 8192 + j)
           = IF SameMirrorClass(cpu.bus.cartridge.mirroring, call'.address - 8192, j)
             THEN call'.value
             ELSE CartPpuReadValue(cpu.bus.cartridge, 8192 + j)]_vars

\* Under Horizontal mirroring the byte written at $23FF reads back at $27FF
\* and not at $2BFF.
C32_Witness ==
  /\ cpu.bus.cartridge.mirroring = "Horizontal" /\ hist.steps = 1
  /\ call.kind = "ppu_write" /\ call.address = 9215 /\ call.value = 255
  /\ CartPpuReadValue(cpu.bus.cartridge, 10239) = 255
  /\ CartPpuReadValue(cpu.bus.cartridge, 11263) = 0

(***************************************************************************)
(* SpecDots: a PPU stepped one dot at a time, with PPUSTATUS reads and     *)
(* PPUCTRL writes between the dots, through a whole frame and beyond.      *)
(***************************************************************************)
InitDots ==
  /\ ppu = PPUNew
  /\ cpu = CPUNew(FlatMemoryNew)
  /\ call = [kind |-> "new"]
  /\ hist = [steps |-> 0]

\* ppu.tick(cartridge, frame, 1)
Dot ==
  /\ ppu' = PpuTick(ppu, 1)
  /\ call' = [kind |-> "dot"]
  /\ UNCHANGED <<cpu, hist>>

\* CPU read of $2002
DotReadStatus ==
  /\ ppu' = read_ppu_status(ppu)
  /\ call' = [kind |-> "read_ppu_status"]
  /\ UNCHANGED <<cpu, hist>>

\* CPU write to $2000
DotWriteCtrl ==
  /\ \E value \in {0, 128} : ppu' = write_ppu_ctrl(ppu, value)
  /\ call' = [kind |-> "write_ppu_ctrl"]
  /\ UNCHANGED <<cpu, hist>>

NextDots == Dot \/ DotReadStatus \/ DotWriteCtrl

SpecDots == InitDots /\ [][NextDots]_vars

ScanPositionOk(p) ==
  /\ p.x \in 0..340 /\ p.y \in 0..261
  /\ TestBit(p.ppu_status, 7) => p.y \in 241..261

\* C33: 0 <= x <= 340 and 0 <= y <= 261 always; a dot advances x by one and,
\* every 341 dots, y by one (262 lines to a frame); the VBlank bit becomes
\* set exactly in the dot in which y becomes 241, is set only while
\* 241 <= y <= 261, and is cleared by a PPUSTATUS read and in the dot in
\* which y wraps from 261 to 0, which also leaves sprite-0-hit clear;
\* register accesses do not move the position.
C33_ScanPositionAndVBlank ==
  [][/\ ScanPositionOk(ppu) /\ ScanPositionOk(ppu')
     /\ call'.kind = "dot" =>
          /\ ppu'.x = (ppu.x + 1) % 341
          /\ ppu'.y = (IF ppu.x = 340 THEN (ppu.y + 1) % 262 ELSE ppu.y)
          /\ TestBit(ppu'.ppu_status, 7) =
               (IF ppu.y = 240 /\ ppu'.y = 241 THEN TRUE
                ELSE IF ppu.y = 261 /\ ppu'.y = 0 THEN FALSE
                ELSE TestBit(ppu.ppu_status, 7))
          /\ (ppu.y = 261 /\ ppu'.y = 0) => ~TestBit(ppu'.ppu_status, 6)
     /\ call'.kind = "read_ppu_status" =>
          /\ ppu'.x = ppu.x /\ ppu'.y = ppu.y
          /\ ~TestBit(ppu'.ppu_status, 7)
     /\ call'.kind = "write_ppu_ctrl" =>
          /\ ppu'.x = ppu.x /\ ppu'.y = ppu.y
          /\ ppu'.ppu_status = ppu.ppu_status]_vars

\* The last dot of line 261 is reached with the VBlank bit still set.
C33_Witness ==
  /\ ppu.x = 340 /\ ppu.y = 261 /\ TestBit(ppu.ppu_status, 7)
  /\ call.kind = "dot"

\* The frame has wrapped: the first dot of line 0 after a full frame.
C33_Wrapped ==
  /\ ppu.x = 0 /\ ppu.y = 0 /\ call.kind = "dot" /\ ~TestBit(ppu.ppu_status, 7)

(***************************************************************************)
(* SpecBrk: BRK at p, the IRQ vector pointing at an RTI at $0400, for      *)
(* every combination of flags, stack pointers at both ends of the page and *)
(* addresses p next to page ends.                                          *)
(***************************************************************************)
BrkAddresses == {512, 766, 767, 33023, 65533}

InitBrk ==
  \E p \in BrkAddresses, flags \in FlagBytes, s \in StackPointers :
    StepInit(Machine(p, 0, 0, 0, s, flags,
                     PokeAll(FlatMemoryNew, << <<65534, 0>>, <<65535, 4>>, <<1024, 64>> >>, 1)), 2)

SpecBrk == InitBrk /\ [][NextStep]_vars

\* C34: BRK at p pushes the high byte of p + 2, then its low byte, then the
\* status byte with B = 1, sets I, leaves the other flags, loads PC from the
\* word at $FFFE and takes 7 cycles; the RTI that follows restores the six
\* flags C, Z, I, D, V, N to their values before the BRK, sets PC to p + 2
\* and S to its value before the BRK.
C34_BrkRtiRoundTrip ==
  [][call'.kind = "execute" =>
       /\ hist'.steps = 1 =>
            /\ call'.opcode = 0 /\ call'.ret = 7
            /\ BusReadValue(cpu'.bus, STACK_BASE + hist.start.s) = (hist.start.pc + 2) \div 256
            /\ BusReadValue(cpu'.bus, STACK_BASE + Wrap8(hist.start.s + 255))
                 = (hist.start.pc + 2) % 256
            /\ BusReadValue(cpu'.bus, STACK_BASE + Wrap8(hist.start.s + 254))
                 = hist.start.p + 48
            /\ cpu'.s = Wrap8(hist.start.s + 253)
            /\ cpu'.irq_disable
            /\ SixFlags(status_register(cpu')) = SixFlags(BitOr(hist.start.p, 4))
            /\ cpu'.pc = VectorWord(cpu.bus, IRQ_VECTOR)
       /\ hist'.steps = 2 =>
            /\ call'.opcode = 64
            /\ SixFlags(status_register(cpu')) = SixFlags(hist.start.p)
            /\ cpu'.pc = hist.start.pc + 2
            /\ cpu'.s = hist.start.s
            /\ ~cpu'.ovf]_vars

\* BRK at $02FF with S = 1, I clear and C, V set, then RTI: PC is $0301, S is
\* 1 again, I is clear again, and the stack holds $03, $01, $71 at $0101,
\* $0100, $01FF.
C34_Witness ==
  /\ call.kind = "execute" /\ call.opcode = 64 /\ hist.steps = 2
  /\ hist.start.pc = 767 /\ hist.start.s = 1 /\ hist.start.p = 65
  /\ cpu.pc = 769 /\ cpu.s = 1 /\ ~cpu.irq_disable /\ cpu.carry /\ cpu.overflow
  /\ BusReadValue(cpu.bus, 257) = 3 /\ BusReadValue(cpu.bus, 256) = 1
  /\ BusReadValue(cpu.bus, 511) = 113

(***************************************************************************)
(* SpecPorts: the host hands controller snapshots to the two ports with    *)
(* update(), and the CPU writes and reads $4016 and $4017, in any order,   *)
(* up to MaxPortSteps operations.  hist follows the ports as the strobe    *)
(* protocol describes them:                                                *)
(*   hist.strobe      the last write to $4016 had bit 0 set                *)
(*   hist.a, hist.b   per port: the bytes in the shift register, the       *)
(*                    snapshot handed in and not yet applied (a sequence   *)
(*                    of at most one element) and the read cursor          *)
(***************************************************************************)
MaxPortSteps == 4

PortSnapshots == {[NoButtons EXCEPT !.a = TRUE], [NoButtons EXCEPT !.b = TRUE, !.up = TRUE]}
PortValues == {0, 1, 2, 3}

ShiftRegisterNew == [bytes |-> <<0, 0, 0, 0, 0, 0, 0, 0>>, pending |-> <<>>, cursor |-> 0]

InitPorts ==
  /\ cpu = CpuBusMachine(CpuBusNew(PlainNROM), <<>>)
  /\ call = [kind |-> "new"]
  /\ hist = [steps |-> 0, strobe |-> FALSE, a |-> ShiftRegisterNew, b |-> ShiftRegisterNew]
  /\ ppu = PPUNew

\* The snapshot handed in, if any, moves into the shift register; the cursor
\* returns to the first byte.
Latched(r) ==
  [bytes |-> IF r.pending # <<>> THEN r.pending[1] ELSE r.bytes, pending |-> <<>>, cursor |-> 0]

ShiftRegisterByte(r) == IF r.cursor < 8 THEN r.bytes[r.cursor + 1] ELSE 1

\* port.update(&state), called by the host
PortUpdate ==
  /\ hist.steps < MaxPortSteps
  /\ \E port \in {"a", "b"}, state \in PortSnapshots :
       /\ cpu' = IF port = "a" THEN [cpu EXCEPT !.bus.port_a = update(@, state)]
                              ELSE [cpu EXCEPT !.bus.port_b = update(@, state)]
       /\ call' = [kind |-> "update", port |-> port]
       /\ hist' = [hist EXCEPT !.steps = @ + 1, ![port].pending = <<read_buffer(state)>>]
  /\ UNCHANGED ppu

\* CPU write to $4016 or $4017
PortWrite ==
  /\ hist.steps < MaxPortSteps
  /\ \E address \in {16406, 16407}, value \in PortValues :
       /\ cpu' = [cpu EXCEPT !.bus = BusWrite(@, address, value)]
       /\ call' = [kind |-> "write", address |-> address, value |-> value]
       /\ hist' = IF address = 16407 THEN [hist EXCEPT !.steps = @ + 1]
                  ELSE IF hist.strobe /\ value % 2 = 0
                  THEN [hist EXCEPT !.steps = @ + 1, !.strobe = FALSE,
                                    !.a = Latched(@), !.b = Latched(@)]
                  ELSE [hist EXCEPT !.steps = @ + 1, !.strobe = (value % 2 = 1)]
  /\ UNCHANGED ppu

\* CPU read of $4016 or $4017
PortRead ==
  /\ hist.steps < MaxPortSteps
  /\ \E address \in {16406, 16407} :
       /\ cpu' = [cpu EXCEPT !.bus = BusAfterRead(@, address)]
       /\ call' = [kind |-> "read", address |-> address,
                   value |-> BusReadValue(cpu.bus, address)]
       /\ hist' = IF address = 16406
                  THEN [hist EXCEPT !.steps = @ + 1, !.a.cursor = @ + 1]
                  ELSE [hist EXCEPT !.steps = @ + 1, !.b.cursor = @ + 1]
  /\ UNCHANGED ppu

NextPorts == PortUpdate \/ PortWrite \/ PortRead

SpecPorts == InitPorts /\ [][NextPorts]_vars

\* C35: a snapshot handed to a port with update() is pending until the
\* strobe; at the strobe's high->low transition (a write to $4016 with bit 0
\* set followed by one with bit 0 clear) both ports take their pending
\* snapshot into the shift register and both read cursors return to the
\* first byte; writes to $4017 latch nothing.  So outside a strobe a peek or
\* read of $4016 / $4017 returns the byte under the cursor of the snapshot
\* applied at the last completed strobe.
C35_AppliedAtStrobeEnd ==
  ~hist.strobe =>
    /\ BusPeek(cpu.bus, 16406) = ShiftRegisterByte(hist.a)
    /\ BusReadValue(cpu.bus, 16406) = ShiftRegisterByte(hist.a)
    /\ BusPeek(cpu.bus, 16407) = ShiftRegisterByte(hist.b)
    /\ BusReadValue(cpu.bus, 16407) = ShiftRegisterByte(hist.b)

\* What the code does: update() and writes to $4017 change nothing a peek
\* returns; a write to $4016 with bit 0 set applies the pending snapshots of
\* both ports and resets both cursors at once; a write to $4016 with bit 0
\* clear changes nothing.
C35_AppliedAtStrobeStart ==
  [][/\ (call'.kind = "update" \/ (call'.kind = "write" /\ call'.address = 16407)) =>
          /\ BusPeek(cpu'.bus, 16406) = BusPeek(cpu.bus, 16406)
          /\ BusPeek(cpu'.bus, 16407) = BusPeek(cpu.bus, 16407)
          /\ cpu'.bus.port_a.index = cpu.bus.port_a.index
          /\ cpu'.bus.port_b.index = cpu.bus.port_b.index
     /\ (call'.kind = "write" /\ call'.address = 16406 /\ call'.value % 2 = 1) =>
          /\ cpu'.bus.port_a.index = 0 /\ cpu'.bus.port_b.index = 0
          /\ cpu'.bus.port_a.incoming_state = <<>> /\ cpu'.bus.port_b.incoming_state = <<>>
          /\ BusPeek(cpu'.bus, 16406) =
               (IF cpu.bus.port_a.incoming_state # <<>>
                THEN cpu.bus.port_a.incoming_state[1].read_buffer[1]
                ELSE cpu.bus.port_a.read_buffer[1])
          /\ BusPeek(cpu'.bus, 16407) =
               (IF cpu.bus.port_b.incoming_state # <<>>
                THEN cpu.bus.port_b.incoming_state[1].read_buffer[1]
                ELSE cpu.bus.port_b.read_buffer[1])
     /\ (call'.kind = "write" /\ call'.address = 16406 /\ call'.value % 2 = 0) =>
          cpu'.bus = cpu.bus]_vars

\* A snapshot with button A pressed was handed to port A while the strobe
\* was high; the strobe has ended and $4016 still reads 0, with the snapshot
\* still pending in the port.
C35_LateSnapshotNotApplied ==
  /\ ~hist.strobe /\ call.kind = "write" /\ call.address = 16406 /\ hist.steps = 3
  /\ hist.a.bytes[1] = 1 /\ hist.a.cursor = 0
  /\ BusPeek(cpu.bus, 16406) = 0 /\ cpu.bus.port_a.incoming_state # <<>>

(***************************************************************************)
(* Disassembler (disassembly.rs).  DisassemblyTable is the 256-way match   *)
(* of Instruction::disassemble (index opcode + 1).                         *)
(***************************************************************************)
DisassemblyTable ==
  <<
    [mnemonic |-> "BRK", addressing_mode |-> "Implied", illegal |-> FALSE],
    [mnemonic |-> "ORA", addressing_mode |-> "IndirectX", illegal |-> FALSE],
    [mnemonic |-> "JAM", addressing_mode |-> "Implied", illegal |-> TRUE],
    [mnemonic |-> "SLO", addressing_mode |-> "IndirectX", illegal |-> TRUE],
    [mnemonic |-> "NOP", addressing_mode |-> "ZeroPage", illegal |-> TRUE],
    [mnemonic |-> "ORA", addressing_mode |-> "ZeroPage", illegal |-> FALSE],
    [mnemonic |-> "ASL", addressing_mode |-> "ZeroPage", illegal |-> FALSE],
    [mnemonic |-> "SLO", addressing_mode |-> "ZeroPage", illegal |-> TRUE],
    [mnemonic |-> "PHP", addressing_mode |-> "Implied", illegal |-> FALSE],
    [mnemonic |-> "ORA", addressing_mode |-> "Immediate", illegal |-> FALSE],
    [mnemonic |-> "ASL", addressing_mode |-> "Accumulator", illegal |-> FALSE],
    [mnemonic |-> "ANC", addressing_mode |-> "Immediate", illegal |-> TRUE],
    [mnemonic |-> "NOP", addressing_mode |-> "Implied", illegal |-> TRUE],
    [mnemonic |-> "ORA", addressing_mode |-> "Absolute", illegal |-> FALSE],
    [mnemonic |-> "ASL", addressing_mode |-> "Absolute", illegal |-> FALSE],
    [mnemonic |-> "SLO", addressing_mode |-> "Absolute", illegal |-> TRUE],
    [mnemonic |-> "BPL", addressing_mode |-> "Relative", illegal |-> FALSE],
    [mnemonic |-> "ORA", addressing_mode |-> "IndirectY", illegal |-> FALSE],
    [mnemonic |-> "JAM", addressing_mode |-> "Implied", illegal |-> TRUE],
    [mnemonic |-> "SLO", addressing_mode |-> "IndirectY", illegal |-> TRUE],
    [mnemonic |-> "NOP", addressing_mode |-> "ZeroPageX", illegal |-> TRUE],
    [mnemonic |-> "ORA", addressing_mode |-> "ZeroPageX", illegal |-> FALSE],
    [mnemonic |-> "ASL", addressing_mode |-> "ZeroPageX", illegal |-> FALSE],
    [mnemonic |-> "SLO", addressing_mode |-> "ZeroPageX", illegal |-> TRUE],
    [mnemonic |-> "CLC", addressing_mode |-> "Implied", illegal |-> FALSE],
    [mnemonic |-> "ORA", addressing_mode |-> "AbsoluteY", illegal |-> FALSE],
    [mnemonic |-> "NOP", addressing_mode |-> "Implied", illegal |-> TRUE],
    [mnemonic |-> "SLO", addressing_mode |-> "AbsoluteY", illegal |-> TRUE],
    [mnemonic |-> "NOP", addressing_mode |-> "AbsoluteX", illegal |-> TRUE],
    [mnemonic |-> "ORA", addressing_mode |-> "AbsoluteX", illegal |-> FALSE],
    [mnemonic |-> "ASL", addressing_mode |-> "AbsoluteX", illegal |-> FALSE],
    [mnemonic |-> "SLO", addressing_mode |-> "AbsoluteX", illegal |-> TRUE],
    [mnemonic |-> "JSR", addressing_mode |-> "Absolute", illegal |-> FALSE],
    [mnemonic |-> "AND", addressing_mode |-> "IndirectX", illegal |-> FALSE],
    [mnemonic |-> "JAM", addressing_mode |-> "Implied", illegal |-> TRUE],
    [mnemonic |-> "RLA", addressing_mode |-> "IndirectX", illegal |-> TRUE],
    [mnemonic |-> "BIT", addressing_mode |-> "ZeroPage", illegal |-> FALSE],
    [mnemonic |-> "AND", addressing_mode |-> "ZeroPage", illegal |-> FALSE],
    [mnemonic |-> "ROL", addressing_mode |-> "ZeroPage", illegal |-> FALSE],
    [mnemonic |-> "RLA", addressing_mode |-> "ZeroPage", illegal |-> TRUE],
    [mnemonic |-> "PLP", addressing_mode |-> "Implied", illegal |-> FALSE],
    [mnemonic |-> "AND", addressing_mode |-> "Immediate", illegal |-> FALSE],
    [mnemonic |-> "ROL", addressing_mode |-> "Accumulator", illegal |-> FALSE],
    [mnemonic |-> "ANC", addressing_mode |-> "Immediate", illegal |-> TRUE],
    [mnemonic |-> "BIT", addressing_mode |-> "Absolute", illegal |-> FALSE],
    [mnemonic |-> "AND", addressing_mode |-> "Absolute", illegal |-> FALSE],
    [mnemonic |-> "ROL", addressing_mode |-> "Absolute", illegal |-> FALSE],
    [mnemonic |-> "RLA", addressing_mode |-> "Absolute", illegal |-> TRUE],
    [mnemonic |-> "BMI", addressing_mode |-> "Relative", illegal |-> FALSE],
    [mnemonic |-> "AND", addressing_mode |-> "IndirectY", illegal |-> FALSE],
    [mnemonic |-> "JAM", addressing_mode |-> "Implied", illegal |-> TRUE],
    [mnemonic |-> "RLA", addressing_mode |-> "IndirectY", illegal |-> TRUE],
    [mnemonic |-> "NOP", addressing_mode |-> "ZeroPageX", illegal |-> TRUE],
    [mnemonic |-> "AND", addressing_mode |-> "ZeroPageX", illegal |-> FALSE],
    [mnemonic |-> "ROL", addressing_mode |-> "ZeroPageX", illegal |-> FALSE],
    [mnemonic |-> "RLA", addressing_mode |-> "ZeroPageX", illegal |-> TRUE],
    [mnemonic |-> "SEC", addressing_mode |-> "Implied", illegal |-> FALSE],
    [mnemonic |-> "AND", addressing_mode |-> "AbsoluteY", illegal |-> FALSE],
    [mnemonic |-> "NOP", addressing_mode |-> "Implied", illegal |-> TRUE],
    [mnemonic |-> "RLA", addressing_mode |-> "AbsoluteY", illegal |-> TRUE],
    [mnemonic |-> "NOP", addressing_mode |-> "AbsoluteX", illegal |-> TRUE],
    [mnemonic |-> "AND", addressing_mode |-> "AbsoluteX", illegal |-> FALSE],
    [mnemonic |-> "ROL", addressing_mode |-> "AbsoluteX", illegal |-> FALSE],
    [mnemonic |-> "RLA", addressing_mode |-> "AbsoluteX", illegal |-> TRUE],
    [mnemonic |-> "RTI", addressing_mode |-> "Implied", illegal |-> FALSE],
    [mnemonic |-> "EOR", addressing_mode |-> "IndirectX", illegal |-> FALSE],
    [mnemonic |-> "JAM", addressing_mode |-> "Implied", illegal |-> TRUE],
    [mnemonic |-> "SRE", addressing_mode |-> "IndirectX", illegal |-> TRUE],
    [mnemonic |-> "NOP", addressing_mode |-> "ZeroPage", illegal |-> TRUE],
    [mnemonic |-> "EOR", addressing_mode |-> "ZeroPage", illegal |-> FALSE],
    [mnemonic |-> "LSR", addressing_mode |-> "ZeroPage", illegal |-> FALSE],
    [mnemonic |-> "SRE", addressing_mode |-> "ZeroPage", illegal |-> TRUE],
    [mnemonic |-> "PHA", addressing_mode |-> "Implied", illegal |-> FALSE],
    [mnemonic |-> "EOR", addressing_mode |-> "Immediate", illegal |-> FALSE],
    [mnemonic |-> "LSR", addressing_mode |-> "Accumulator", illegal |-> FALSE],
    [mnemonic |-> "ALR", addressing_mode |-> "Immediate", illegal |-> TRUE],
    [mnemonic |-> "JMP", addressing_mode |-> "Absolute", illegal |-> FALSE],
    [mnemonic |-> "EOR", addressing_mode |-> "Absolute", illegal |-> FALSE],
    [mnemonic |-> "LSR", addressing_mode |-> "Absolute", illegal |-> FALSE],
    [mnemonic |-> "SRE", addressing_mode |-> "Absolute", illegal |-> TRUE],
    [mnemonic |-> "BVC", addressing_mode |-> "Relative", illegal |-> FALSE],
    [mnemonic |-> "EOR", addressing_mode |-> "IndirectY", illegal |-> FALSE],
    [mnemonic |-> "JAM", addressing_mode |-> "Implied", illegal |-> TRUE],
    [mnemonic |-> "SRE", addressing_mode |-> "IndirectY", illegal |-> TRUE],
    [mnemonic |-> "NOP", addressing_mode |-> "ZeroPageX", illegal |-> TRUE],
    [mnemonic |-> "EOR", addressing_mode |-> "ZeroPageX", illegal |-> FALSE],
    [mnemonic |-> "LSR", addressing_mode |-> "ZeroPageX", illegal |-> FALSE],
    [mnemonic |-> "SRE", addressing_mode |-> "ZeroPageX", illegal |-> TRUE],
    [mnemonic |-> "CLI", addressing_mode |-> "Implied", illegal |-> FALSE],
    [mnemonic |-> "EOR", addressing_mode |-> "AbsoluteY", illegal |-> FALSE],
    [mnemonic |-> "NOP", addressing_mode |-> "Implied", illegal |-> TRUE],
    [mnemonic |-> "SRE", addressing_mode |-> "AbsoluteY", illegal |-> TRUE],
    [mnemonic |-> "NOP", addressing_mode |-> "AbsoluteX", illegal |-> TRUE],
    [mnemonic |-> "EOR", addressing_mode |-> "AbsoluteX", illegal |-> FALSE],
    [mnemonic |-> "LSR", addressing_mode |-> "AbsoluteX", illegal |-> FALSE],
    [mnemonic |-> "SRE", addressing_mode |-> "AbsoluteX", illegal |-> TRUE],
    [mnemonic |-> "RTS", addressing_mode |-> "Implied", illegal |-> FALSE],
    [mnemonic |-> "ADC", addressing_mode |-> "IndirectX", illegal |-> FALSE],
    [mnemonic |-> "JAM", addressing_mode |-> "Implied", illegal |-> TRUE],
    [mnemonic |-> "RRA", addressing_mode |-> "IndirectX", illegal |-> TRUE],
    [mnemonic |-> "NOP", addressing_mode |-> "ZeroPage", illegal |-> TRUE],
    [mnemonic |-> "ADC", addressing_mode |-> "ZeroPage", illegal |-> FALSE],
    [mnemonic |-> "ROR", addressing_mode |-> "ZeroPage", illegal |-> FALSE],
    [mnemonic |-> "RRA", addressing_mode |-> "ZeroPage", illegal |-> TRUE],
    [mnemonic |-> "PLA", addressing_mode |-> "Implied", illegal |-> FALSE],
    [mnemonic |-> "ADC", addressing_mode |-> "Immediate", illegal |-> FALSE],
    [mnemonic |-> "ROR", addressing_mode |-> "Accumulator", illegal |-> FALSE],
    [mnemonic |-> "ARR", addressing_mode |-> "Immediate", illegal |-> TRUE],
    [mnemonic |-> "JMP", addressing_mode |-> "Indirect", illegal |-> FALSE],
    [mnemonic |-> "ADC", addressing_mode |-> "Absolute", illegal |-> FALSE],
    [mnemonic |-> "ROR", addressing_mode |-> "Absolute", illegal |-> FALSE],
    [mnemonic |-> "RRA", addressing_mode |-> "Absolute", illegal |-> TRUE],
    [mnemonic |-> "BVS", addressing_mode |-> "Relative", illegal |-> FALSE],
    [mnemonic |-> "ADC", addressing_mode |-> "IndirectY", illegal |-> FALSE],
    [mnemonic |-> "JAM", addressing_mode |-> "Implied", illegal |-> TRUE],
    [mnemonic |-> "RRA", addressing_mode |-> "IndirectY", illegal |-> TRUE],
    [mnemonic |-> "NOP", addressing_mode |-> "ZeroPageX", illegal |-> TRUE],
    [mnemonic |-> "ADC", addressing_mode |-> "ZeroPageX", illegal |-> FALSE],
    [mnemonic |-> "ROR", addressing_mode |-> "ZeroPageX", illegal |-> FALSE],
    [mnemonic |-> "RRA", addressing_mode |-> "ZeroPageX", illegal |-> TRUE],
    [mnemonic |-> "SEI", addressing_mode |-> "Implied", illegal |-> FALSE],
    [mnemonic |-> "ADC", addressing_mode |-> "AbsoluteY", illegal |-> FALSE],
    [mnemonic |-> "NOP", addressing_mode |-> "Implied", illegal |-> TRUE],
    [mnemonic |-> "RRA", addressing_mode |-> "AbsoluteY", illegal |-> TRUE],
    [mnemonic |-> "NOP", addressing_mode |-> "AbsoluteY", illegal |-> TRUE],
    [mnemonic |-> "ADC", addressing_mode |-> "AbsoluteX", illegal |-> FALSE],
    [mnemonic |-> "ROR", addressing_mode |-> "AbsoluteX", illegal |-> FALSE],
    [mnemonic |-> "RRA", addressing_mode |-> "AbsoluteX", illegal |-> TRUE],
    [mnemonic |-> "NOP", addressing_mode |-> "Immediate", illegal |-> TRUE],
    [mnemonic |-> "STA", addressing_mode |-> "IndirectX", illegal |-> FALSE],
    [mnemonic |-> "NOP", addressing_mode |-> "Immediate", illegal |-> TRUE],
    [mnemonic |-> "SAX", addressing_mode |-> "IndirectX", illegal |-> TRUE],
    [mnemonic |-> "STY", addressing_mode |-> "ZeroPage", illegal |-> FALSE],
    [mnemonic |-> "STA", addressing_mode |-> "ZeroPage", illegal |-> FALSE],
    [mnemonic |-> "STX", addressing_mode |-> "ZeroPage", illegal |-> FALSE],
    [mnemonic |-> "SAX", addressing_mode |-> "ZeroPage", illegal |-> TRUE],
    [mnemonic |-> "DEY", addressing_mode |-> "Implied", illegal |-> FALSE],
    [mnemonic |-> "NOP", addressing_mode |-> "Immediate", illegal |-> TRUE],
    [mnemonic |-> "TXA", addressing_mode |-> "Implied", illegal |-> FALSE],
    [mnemonic |-> "XAA", addressing_mode |-> "Immediate", illegal |-> TRUE],
    [mnemonic |-> "STY", addressing_mode |-> "Absolute", illegal |-> FALSE],
    [mnemonic |-> "STA", addressing_mode |-> "Absolute", illegal |-> FALSE],
    [mnemonic |-> "STX", addressing_mode |-> "Absolute", illegal |-> FALSE],
    [mnemonic |-> "SAX", addressing_mode |-> "Absolute", illegal |-> TRUE],
    [mnemonic |-> "BCC", addressing_mode |-> "Relative", illegal |-> FALSE],
    [mnemonic |-> "STA", addressing_mode |-> "IndirectY", illegal |-> FALSE],
    [mnemonic |-> "JAM", addressing_mode |-> "Implied", illegal |-> TRUE],
    [mnemonic |-> "SHA", addressing_mode |-> "IndirectY", illegal |-> TRUE],
    [mnemonic |-> "STY", addressing_mode |-> "ZeroPageX", illegal |-> FALSE],
    [mnemonic |-> "STA", addressing_mode |-> "ZeroPageX", illegal |-> FALSE],
    [mnemonic |-> "STX", addressing_mode |-> "ZeroPageY", illegal |-> FALSE],
    [mnemonic |-> "SAX", addressing_mode |-> "ZeroPageY", illegal |-> TRUE],
    [mnemonic |-> "TYA", addressing_mode |-> "Implied", illegal |-> FALSE],
    [mnemonic |-> "STA", addressing_mode |-> "AbsoluteX", illegal |-> FALSE],
    [mnemonic |-> "TXS", addressing_mode |-> "Implied", illegal |-> FALSE],
    [mnemonic |-> "TAS", addressing_mode |-> "AbsoluteY", illegal |-> TRUE],
    [mnemonic |-> "SHY", addressing_mode |-> "AbsoluteX", illegal |-> TRUE],
    [mnemonic |-> "STA", addressing_mode |-> "AbsoluteX", illegal |-> FALSE],
    [mnemonic |-> "SHX", addressing_mode |-> "AbsoluteY", illegal |-> TRUE],
    [mnemonic |-> "SHA", addressing_mode |-> "AbsoluteY", illegal |-> TRUE],
    [mnemonic |-> "LDY", addressing_mode |-> "Immediate", illegal |-> FALSE],
    [mnemonic |-> "LDA", addressing_mode |-> "IndirectX", illegal |-> FALSE],
    [mnemonic |-> "LDX", addressing_mode |-> "Immediate", illegal |-> FALSE],
    [mnemonic |-> "LAX", addressing_mode |-> "IndirectX", illegal |-> TRUE],
    [mnemonic |-> "LDY", addressing_mode |-> "ZeroPage", illegal |-> FALSE],
    [mnemonic |-> "LDA", addressing_mode |-> "ZeroPage", illegal |-> FALSE],
    [mnemonic |-> "LDX", addressing_mode |-> "ZeroPage", illegal |-> FALSE],
    [mnemonic |-> "LAX", addressing_mode |-> "ZeroPage", illegal |-> TRUE],
    [mnemonic |-> "TAY", addressing_mode |-> "Implied", illegal |-> FALSE],
    [mnemonic |-> "LDA", addressing_mode |-> "Immediate", illegal |-> FALSE],
    [mnemonic |-> "TAX", addressing_mode |-> "Implied", illegal |-> FALSE],
    [mnemonic |-> "LXA", addressing_mode |-> "Immediate", illegal |-> TRUE],
    [mnemonic |-> "LDY", addressing_mode |-> "Absolute", illegal |-> FALSE],
    [mnemonic |-> "LDA", addressing_mode |-> "Absolute", illegal |-> FALSE],
    [mnemonic |-> "LDX", addressing_mode |-> "Absolute", illegal |-> FALSE],
    [mnemonic |-> "LAX", addressing_mode |-> "Absolute", illegal |-> TRUE],
    [mnemonic |-> "BCS", addressing_mode |-> "Relative", illegal |-> FALSE],
    [mnemonic |-> "LDA", addressing_mode |-> "IndirectY", illegal |-> FALSE],
    [mnemonic |-> "JAM", addressing_mode |-> "Implied", illegal |-> TRUE],
    [mnemonic |-> "LAX", addressing_mode |-> "IndirectY", illegal |-> TRUE],
    [mnemonic |-> "LDY", addressing_mode |-> "ZeroPageX", illegal |-> FALSE],
    [mnemonic |-> "LDA", addressing_mode |-> "ZeroPageX", illegal |-> FALSE],
    [mnemonic |-> "LDX", addressing_mode |-> "ZeroPageY", illegal |-> FALSE],
    [mnemonic |-> "LAX", addressing_mode |-> "ZeroPageY", illegal |-> TRUE],
    [mnemonic |-> "CLV", addressing_mode |-> "Implied", illegal |-> FALSE],
    [mnemonic |-> "LDA", addressing_mode |-> "AbsoluteY", illegal |-> FALSE],
    [mnemonic |-> "TSX", addressing_mode |-> "Implied", illegal |-> FALSE],
    [mnemonic |-> "LAS", addressing_mode |-> "AbsoluteY", illegal |-> TRUE],
    [mnemonic |-> "LDY", addressing_mode |-> "AbsoluteX", illegal |-> FALSE],
    [mnemonic |-> "LDA", addressing_mode |-> "AbsoluteX", illegal |-> FALSE],
    [mnemonic |-> "LDX", addressing_mode |-> "AbsoluteY", illegal |-> FALSE],
    [mnemonic |-> "LAX", addressing_mode |-> "AbsoluteY", illegal |-> TRUE],
    [mnemonic |-> "CPY", addressing_mode |-> "Immediate", illegal |-> FALSE],
    [mnemonic |-> "CMP", addressing_mode |-> "IndirectX", illegal |-> FALSE],
    [mnemonic |-> "NOP", addressing_mode |-> "Immediate", illegal |-> TRUE],
    [mnemonic |-> "DCP", addressing_mode |-> "IndirectX", illegal |-> TRUE],
    [mnemonic |-> "CPY", addressing_mode |-> "ZeroPage", illegal |-> FALSE],
    [mnemonic |-> "CMP", addressing_mode |-> "ZeroPage", illegal |-> FALSE],
    [mnemonic |-> "DEC", addressing_mode |-> "ZeroPage", illegal |-> FALSE],
    [mnemonic |-> "DCP", addressing_mode |-> "ZeroPage", illegal |-> TRUE],
    [mnemonic |-> "INY", addressing_mode |-> "Implied", illegal |-> FALSE],
    [mnemonic |-> "CMP", addressing_mode |-> "Immediate", illegal |-> FALSE],
    [mnemonic |-> "DEX", addressing_mode |-> "Implied", illegal |-> FALSE],
    [mnemonic |-> "SBX", addressing_mode |-> "Immediate", illegal |-> TRUE],
    [mnemonic |-> "CPY", addressing_mode |-> "Absolute", illegal |-> FALSE],
    [mnemonic |-> "CMP", addressing_mode |-> "Absolute", illegal |-> FALSE],
    [mnemonic |-> "DEC", addressing_mode |-> "Absolute", illegal |-> FALSE],
    [mnemonic |-> "DCP", addressing_mode |-> "Absolute", illegal |-> TRUE],
    [mnemonic |-> "BNE", addressing_mode |-> "Relative", illegal |-> FALSE],
    [mnemonic |-> "CMP", addressing_mode |-> "IndirectY", illegal |-> FALSE],
    [mnemonic |-> "JAM", addressing_mode |-> "Implied", illegal |-> TRUE],
    [mnemonic |-> "DCP", addressing_mode |-> "IndirectY", illegal |-> TRUE],
    [mnemonic |-> "NOP", addressing_mode |-> "ZeroPageX", illegal |-> TRUE],
    [mnemonic |-> "CMP", addressing_mode |-> "ZeroPageX", illegal |-> FALSE],
    [mnemonic |-> "DEC", addressing_mode |-> "ZeroPageX", illegal |-> FALSE],
    [mnemonic |-> "DCP", addressing_mode |-> "ZeroPageX", illegal |-> TRUE],
    [mnemonic |-> "CLD", addressing_mode |-> "Implied", illegal |-> FALSE],
    [mnemonic |-> "CMP", addressing_mode |-> "AbsoluteY", illegal |-> FALSE],
    [mnemonic |-> "NOP", addressing_mode |-> "Implied", illegal |-> TRUE],
    [mnemonic |-> "DCP", addressing_mode |-> "AbsoluteY", illegal |-> TRUE],
    [mnemonic |-> "NOP", addressing_mode |-> "AbsoluteX", illegal |-> TRUE],
    [mnemonic |-> "CMP", addressing_mode |-> "AbsoluteX", illegal |-> FALSE],
    [mnemonic |-> "DEC", addressing_mode |-> "AbsoluteX", illegal |-> FALSE],
    [mnemonic |-> "DCP", addressing_mode |-> "AbsoluteX", illegal |-> TRUE],
    [mnemonic |-> "CPX", addressing_mode |-> "Immediate", illegal |-> FALSE],
    [mnemonic |-> "SBC", addressing_mode |-> "IndirectX", illegal |-> FALSE],
    [mnemonic |-> "NOP", addressing_mode |-> "Immediate", illegal |-> TRUE],
    [mnemonic |-> "ISC", addressing_mode |-> "IndirectX", illegal |-> TRUE],
    [mnemonic |-> "CPX", addressing_mode |-> "ZeroPage", illegal |-> FALSE],
    [mnemonic |-> "SBC", addressing_mode |-> "ZeroPage", illegal |-> FALSE],
    [mnemonic |-> "INC", addressing_mode |-> "ZeroPage", illegal |-> FALSE],
    [mnemonic |-> "ISC", addressing_mode |-> "ZeroPage", illegal |-> TRUE],
    [mnemonic |-> "INX", addressing_mode |-> "Implied", illegal |-> FALSE],
    [mnemonic |-> "SBC", addressing_mode |-> "Immediate", illegal |-> FALSE],
    [mnemonic |-> "NOP", addressing_mode |-> "Implied", illegal |-> FALSE],
    [mnemonic |-> "SBC", addressing_mode |-> "Immediate", illegal |-> TRUE],
    [mnemonic |-> "CPX", addressing_mode |-> "Absolute", illegal |-> FALSE],
    [mnemonic |-> "SBC", addressing_mode |-> "Absolute", illegal |-> FALSE],
    [mnemonic |-> "INC", addressing_mode |-> "Absolute", illegal |-> FALSE],
    [mnemonic |-> "ISC", addressing_mode |-> "Absolute", illegal |-> TRUE],
    [mnemonic |-> "BEQ", addressing_mode |-> "Relative", illegal |-> FALSE],
    [mnemonic |-> "SBC", addressing_mode |-> "IndirectY", illegal |-> FALSE],
    [mnemonic |-> "JAM", addressing_mode |-> "Implied", illegal |-> TRUE],
    [mnemonic |-> "ISC", addressing_mode |-> "IndirectY", illegal |-> TRUE],
    [mnemonic |-> "NOP", addressing_mode |-> "ZeroPageX", illegal |-> TRUE],
    [mnemonic |-> "SBC", addressing_mode |-> "ZeroPageX", illegal |-> FALSE],
    [mnemonic |-> "INC", addressing_mode |-> "ZeroPageX", illegal |-> FALSE],
    [mnemonic |-> "ISC", addressing_mode |-> "ZeroPageX", illegal |-> TRUE],
    [mnemonic |-> "SED", addressing_mode |-> "Implied", illegal |-> FALSE],
    [mnemonic |-> "SBC", addressing_mode |-> "AbsoluteY", illegal |-> FALSE],
    [mnemonic |-> "NOP", addressing_mode |-> "Implied", illegal |-> TRUE],
    [mnemonic |-> "ISC", addressing_mode |-> "AbsoluteY", illegal |-> TRUE],
    [mnemonic |-> "NOP", addressing_mode |-> "AbsoluteX", illegal |-> TRUE],
    [mnemonic |-> "SBC", addressing_mode |-> "AbsoluteX", illegal |-> FALSE],
    [mnemonic |-> "INC", addressing_mode |-> "AbsoluteX", illegal |-> FALSE],
    [mnemonic |-> "ISC", addressing_mode |-> "AbsoluteX", illegal |-> TRUE]
  >>

disassemble(opcode) == DisassemblyTable[opcode + 1]

\* Instruction::length
InstructionLength(opcode) ==
  With(disassemble(opcode).addressing_mode, LAMBDA addressing_mode :
    CASE addressing_mode = "Implied" -> 1
      [] addressing_mode = "Accumulator" -> 1
      [] addressing_mode = "Immediate" -> 2
      [] addressing_mode = "Absolute" -> 3
      [] addressing_mode = "AbsoluteX" -> 3
      [] addressing_mode = "AbsoluteY" -> 3
      [] addressing_mode = "Indirect" -> 3
      [] addressing_mode = "IndirectX" -> 2
      [] addressing_mode = "IndirectY" -> 2
      [] addressing_mode = "ZeroPage" -> 2
      [] addressing_mode = "ZeroPageX" -> 2
      [] addressing_mode = "ZeroPageY" -> 2
      [] addressing_mode = "Relative" -> 2)

(***************************************************************************)
(* SpecLength: each of the 256 opcodes at $0300 with operand bytes $10,    *)
(* $03, executed once, with the flags all clear or N, V, Z, C all set (so  *)
(* that every branch is taken in one run and not taken in the other).      *)
(***************************************************************************)
InitLength ==
  \E opcode \in 0..255, flags \in {0, 195}, x \in {0, 255} :
    /\ cpu = Machine(768, 0, x, x, 253, flags,
                     load_code(FlatMemoryNew, <<opcode, 16, 3>>, 768, None))
    /\ call = [kind |-> "new"]
    /\ hist = [steps |-> 0, limit |-> 1, start |-> StartOf(cpu), opcode |-> opcode]
    /\ ppu = PPUNew

SpecLength == InitLength /\ [][NextStep]_vars

ControlFlowMnemonics == {"JMP", "JSR", "RTS", "RTI", "BRK", "JAM"}

\* The opcode transfers control in CPU state m: a jump, call, return, BRK or
\* JAM, or a branch whose condition holds.
TransfersControl(opcode, m) ==
  \/ disassemble(opcode).mnemonic \in ControlFlowMnemonics
  \/ opcode \in BranchOpcodes /\ BranchTaken(opcode, m)

\* C36: executing an opcode that is no jump, call, return, taken branch, BRK
\* or JAM advances PC by Instruction::length() of the opcode.
C36_LengthAgreement ==
  [][(call'.kind = "execute" /\ ~TransfersControl(call'.opcode, cpu)) =>
       cpu'.pc = cpu.pc + InstructionLength(call'.opcode)]_vars

\* The same for every opcode but $0C.
C36_LengthAgreementBut0C ==
  [][(call'.kind = "execute" /\ ~TransfersControl(call'.opcode, cpu) /\ call'.opcode # 12) =>
       cpu'.pc = cpu.pc + InstructionLength(call'.opcode)]_vars

\* Opcode $0C has been executed: PC advanced by three, and the disassembler
\* gives the instruction one byte.
C36_ThreeByteNop ==
  /\ call.kind = "execute" /\ call.opcode = 12 /\ hist.steps = 1
  /\ cpu.pc = hist.start.pc + 3 /\ InstructionLength(12) = 1

(***************************************************************************)
(* C37, on Spec (the CPU stepped by a host over every opcode, with the nmi *)
(* and irq lines driven between the steps).                                *)
(***************************************************************************)
\* C37: every call of execute_instruction returns at least 1, in every CPU
\* state and for every opcode, the call that executes a JAM opcode included
\* (NES::tick runs the PPU for three times the returned count, so for at
\* least 3 dots).
C37_TimeProgresses ==
  [][call'.kind = "execute" => call'.ret >= 1]_vars

\* A call that fetches a JAM opcode without having performed an interrupt
\* entry before the fetch returns 0 and leaves total_cycles unchanged; every
\* other call returns at least 1.
C37_TimeProgressesButJam ==
  [][call'.kind = "execute" =>
       IF call'.fetched /\ call'.opcode \in JamOpcodes
            /\ ~call'.nmi_entry /\ ~call'.irq_entry
       THEN call'.ret = 0 /\ cpu'.jammed /\ cpu'.total_cycles = cpu.total_cycles
       ELSE call'.ret >= 1]_vars

\* A call has executed a JAM opcode and returned 0.
C37_ZeroCycles ==
  /\ call.kind = "execute" /\ call.fetched /\ call.opcode \in JamOpcodes
  /\ call.ret = 0 /\ cpu.jammed

(***************************************************************************)
(* SpecWrap: one instruction at the top of the address space (and at $0300 *)
(* for comparison) on flat memory, and the snapshot of ExecutionState::new *)
(* taken before or after it.  The operand bytes are at PC+1 and PC+2 taken *)
(* modulo 2^16; the stack holds the word RTS pulls.                        *)
(*   hist.opcode, hist.operand1   the bytes at PC and PC+1 (PC+2 holds 3)  *)
(*   hist.word                    the word on the stack                    *)
(*   hist.snaps                   snapshots taken so far                   *)
(* NOP, LDA #, LDA zp, LDA abs, JMP abs, JSR, RTS.                         *)
(***************************************************************************)
WrapAddresses == {768, 65533, 65534, 65535}
WrapOpcodes == {234, 169, 165, 173, 76, 32, 96}
WrapLength(opcode) ==
  IF opcode \in {234, 96} THEN 1 ELSE IF opcode \in {169, 165} THEN 2 ELSE 3

InitWrap ==
  \E p \in WrapAddresses, opcode \in WrapOpcodes, operand1 \in {16, 128},
     word \in {767, 65535} :
    /\ cpu = Machine(p, 0, 0, 0, 253, 0,
                     PokeAll(FlatMemoryNew,
                             << <<operand1, 77>>, <<768 + operand1, 88>>,
                                <<510, word % 256>>, <<511, word \div 256>>,
                                <<p, opcode>>, <<Wrap16(p + 1), operand1>>,
                                <<Wrap16(p + 2), 3>> >>, 1))
    /\ call = [kind |-> "new"]
    /\ hist = [steps |-> 0, limit |-> 1, start |-> StartOf(cpu), opcode |-> opcode,
               operand1 |-> operand1, word |-> word, snaps |-> 0]
    /\ ppu = PPUNew

WrapStep ==
  /\ hist.steps < hist.limit
  /\ With(execute_instruction(cpu), LAMBDA r :
        /\ cpu' = r.m
        /\ call' = ExecuteTrace(r)
        /\ hist' = [hist EXCEPT !.steps = @ + 1])
  /\ UNCHANGED ppu

WrapSnapshot ==
  /\ hist.snaps < 1
  /\ With(current_state(cpu), LAMBDA r :
        /\ cpu' = r.m
        /\ call' = [kind |-> "current_state", state |-> r.state]
        /\ hist' = [hist EXCEPT !.snaps = @ + 1])
  /\ UNCHANGED ppu

NextWrap == WrapStep \/ WrapSnapshot

SpecWrap == InitWrap /\ [][NextWrap]_vars

\* What the instruction at hist.start.pc does to PC, A and the stack, with
\* every sum taken modulo 2^16.
WrapEffect ==
  /\ call'.opcode = hist.opcode
  /\ hist.opcode \in {234, 169, 165, 173} =>
       cpu'.pc = Wrap16(cpu.pc + WrapLength(hist.opcode))
  /\ hist.opcode = 169 => cpu'.a = hist.operand1
  /\ hist.opcode = 165 => cpu'.a = 77
  /\ hist.opcode = 173 => cpu'.a = 88
  /\ hist.opcode \in {76, 32} => cpu'.pc = 768 + hist.operand1
  /\ hist.opcode = 32 =>
       /\ BusReadValue(cpu'.bus, STACK_BASE + 253) = Wrap16(cpu.pc + 2) \div 256
       /\ BusReadValue(cpu'.bus, STACK_BASE + 252) = Wrap16(cpu.pc + 2) % 256
  /\ hist.opcode = 96 => cpu'.pc = Wrap16(hist.word + 1)

\* The snapshot holds the bytes at PC, PC+1 and PC+2 modulo 2^16.
WrapSnapshotEffect ==
  /\ call'.state.pc = cpu.pc
  /\ call'.state.next_instruction[1] = BusReadValue(cpu.bus, cpu.pc)
  /\ call'.state.next_instruction[2] = BusReadValue(cpu.bus, Wrap16(cpu.pc + 1))
  /\ call'.state.next_instruction[3] = BusReadValue(cpu.bus, Wrap16(cpu.pc + 2))

\* The instruction at hist.start.pc evaluates an unchecked u16 sum above
\* $FFFF: PC + 1 for an operand, PC + length for the advance or the JSR
\* return address, the pulled word + 1 for RTS.
WrapStepOverflows ==
  \/ hist.opcode \in {234, 169, 165, 173} /\ cpu.pc + WrapLength(hist.opcode) > 65535
  \/ hist.opcode = 76 /\ cpu.pc + 1 > 65535
  \/ hist.opcode = 32 /\ cpu.pc + 3 > 65535
  \/ hist.opcode = 96 /\ hist.word + 1 > 65535

\* C38: for every PC, $FFFD, $FFFE and $FFFF included, operand fetch, the PC
\* advance, the JSR return address, the RTS increment and the snapshot of
\* current_state wrap around to $0000 with no arithmetic overflow.
C38_PcArithmeticWraps ==
  [][/\ (call'.kind = "execute" /\ hist.steps = 0) => WrapEffect /\ ~cpu'.ovf
     /\ call'.kind = "current_state" => WrapSnapshotEffect /\ ~cpu'.ovf]_vars

\* In a build that wraps on overflow the values are the ones modulo 2^16, and
\* an unchecked sum overflows exactly when PC + 1, PC + length, PC + 2 of the
\* snapshot or the pulled word + 1 exceeds $FFFF.
C38_WrapsWithUncheckedOverflow ==
  [][/\ (call'.kind = "execute" /\ hist.steps = 0) =>
          /\ WrapEffect
          /\ cpu'.ovf = (cpu.ovf \/ WrapStepOverflows)
     /\ call'.kind = "current_state" =>
          /\ WrapSnapshotEffect
          /\ cpu'.ovf = (cpu.ovf \/ cpu.pc + 2 > 65535)]_vars

\* LDA #$10 at $FFFF has loaded the byte at $0000 and PC is $0001, after the
\* unchecked sums PC + 1 and PC + 2 overflowed.
C38_OverflowAtTop ==
  /\ call.kind = "execute" /\ call.opcode = 169 /\ hist.start.pc = 65535
  /\ hist.snaps = 0 /\ cpu.a = 16 /\ cpu.pc = 1 /\ cpu.ovf

(***************************************************************************)
(* C39, on SpecStatus: the last instruction of the program reads $2002     *)
(* after $2005 has latched hist.x, hist.y and $2006 the address            *)
(* hist.hi : hist.lo.                                                      *)
(***************************************************************************)
\* An instruction that reads $2002 (LDA $2002) is about to run.
StatusReadNext ==
  /\ BusReadValue(cpu.bus, cpu.pc) = 173
  /\ VectorWord(cpu.bus, cpu.pc + 1) = 8194

\* C39: a CPU read of $2002 changes neither the 14-bit address latched by
\* $2006 writes nor the X/Y scroll offsets latched by $2005 writes; only the
\* VBlank bit and the write toggle.
C39_StatusReadKeepsLatches ==
  [][(call'.kind = "execute" /\ StatusReadNext) =>
       /\ cpu'.bus.ppu.ppu_addr = cpu.bus.ppu.ppu_addr
       /\ cpu'.bus.ppu.ppu_scroll.offset_x = cpu.bus.ppu.ppu_scroll.offset_x
       /\ cpu'.bus.ppu.ppu_scroll.offset_y = cpu.bus.ppu.ppu_scroll.offset_y
       /\ cpu'.bus.ppu.ppu_scroll.first_write
       /\ cpu'.bus.ppu.ppu_status = cpu.bus.ppu.ppu_status % 128]_vars

\* A CPU read of $2002 sets the latched address and both scroll offsets to 0
\* (and the toggle to the first-write state, and clears VBlank); before the
\* last read they held what the program wrote.
C39_StatusReadClearsLatches ==
  [][(call'.kind = "execute" /\ StatusReadNext) =>
       /\ hist'.steps = hist.limit =>
            /\ cpu.bus.ppu.ppu_addr = (hist.hi * 256 + hist.lo) % 16384
            /\ cpu.bus.ppu.ppu_scroll.offset_x = hist.x
            /\ cpu.bus.ppu.ppu_scroll.offset_y = hist.y
       /\ cpu'.bus.ppu.ppu_addr = 0
       /\ cpu'.bus.ppu.ppu_scroll.offset_x = 0
       /\ cpu'.bus.ppu.ppu_scroll.offset_y = 0
       /\ cpu'.bus.ppu.ppu_scroll.first_write
       /\ cpu'.bus.ppu.ppu_status = cpu.bus.ppu.ppu_status % 128]_vars

\* The program wrote $11, $22 to $2005 and $21, $08 to $2006 and then read
\* $2002: the latched address and the offsets are 0.
C39_LatchesCleared ==
  /\ hist.steps = hist.limit /\ call.kind = "execute" /\ call.opcode = 173
  /\ hist.x = 17 /\ hist.y = 34 /\ hist.hi = 33 /\ hist.lo = 8
  /\ cpu.bus.ppu.ppu_addr = 0
  /\ cpu.bus.ppu.ppu_scroll.offset_x = 0 /\ cpu.bus.ppu.ppu_scroll.offset_y = 0

(***************************************************************************)
(* SpecArr: ARR #M ($6B) at $0300 on flat memory, for every accumulator,   *)
(* every operand and both values of the carry flag.                        *)
(***************************************************************************)
InitArr ==
  \E a \in 0..255, value \in 0..255, p \in {0, 1} :
    StepInit(Machine(768, a, 0, 0, 253, p,
                     PokeAll(FlatMemoryNew, << <<768, 107>>, <<769, value>> >>, 1)), 1)

SpecArr == InitArr /\ [][NextStep]_vars

\* ((A and M) >> 1) | (C << 7) for the CPU state m with operand M at PC + 1.
ArrResult(m) ==
  (BitAnd(m.a, BusReadValue(m.bus, m.pc + 1)) \div 2) + 128 * B2N(m.carry)

\* C40: after ARR #M the accumulator is ((A and M) >> 1) | (C << 7), the
\* carry flag is bit 6 of that result, the overflow flag is bit 6 XOR bit 5
\* of it (clear when both are set), and N, Z are those of the result.
C40_ArrFlags ==
  [][call'.kind = "execute" =>
       /\ call'.opcode = 107
       /\ cpu'.a = ArrResult(cpu)
       /\ cpu'.carry = TestBit(ArrResult(cpu), 6)
       /\ cpu'.overflow = (TestBit(ArrResult(cpu), 6) # TestBit(ArrResult(cpu), 5))
       /\ cpu'.negative = TestBit(ArrResult(cpu), 7)
       /\ cpu'.zero = (ArrResult(cpu) = 0)
       /\ cpu'.pc = cpu.pc + 2 /\ call'.ret = 2]_vars

\* The same with the overflow flag set when bit 6 or bit 5 of the result is
\* set, both included.
C40_ArrFlagsOverflowEitherBit ==
  [][call'.kind = "execute" =>
       /\ call'.opcode = 107
       /\ cpu'.a = ArrResult(cpu)
       /\ cpu'.carry = TestBit(ArrResult(cpu), 6)
       /\ cpu'.overflow = (TestBit(ArrResult(cpu), 6) \/ TestBit(ArrResult(cpu), 5))
       /\ cpu'.negative = TestBit(ArrResult(cpu), 7)
       /\ cpu'.zero = (ArrResult(cpu) = 0)
       /\ cpu'.pc = cpu.pc + 2 /\ call'.ret = 2]_vars

\* ARR #$FF with A = $C0 and carry clear: the result is $60, bits 6 and 5
\* both set, and the overflow flag is set.
C40_OverflowWithBothBits ==
  /\ call.kind = "execute" /\ call.opcode = 107
  /\ hist.start.a = 192 /\ hist.start.p = 0
  /\ cpu.a = 96 /\ cpu.carry /\ cpu.overflow

====
